---- MODULE Spec2Model ----
(***************************************************************************)
(* BotCore decision pipeline (src/brain.py and its collaborators).         *)
(*                                                                         *)
(* The specifications of this module:                                      *)
(*   Spec       - the SOD and intraday workflows over the note store;      *)
(*   SpecParse  - the reasoning-service response parsers, applied to       *)
(*                bounded response texts;                                  *)
(*   SpecCharts - one call of analyze_charts_with_gpt_vision;              *)
(*   SpecOhlc   - the pattern detectors on a candle series;                *)
(*   SpecLevels - the level check on a price and a list of levels;         *)
(*   SpecStore  - sequences of calls of the store's save and clear         *)
(*                functions, row by row.                                   *)
(***************************************************************************)
EXTENDS Integers, Sequences, FiniteSets, TLC

(***************************************************************************)
(* Bounds                                                                  *)
(***************************************************************************)
\* longest stretch of arbitrary text before / after the core of a response
MaxPad == 1
\* most timeframes in one chart-observation request tried on its own
MaxTimeframes == 2
\* longest candle series handed to the pattern detectors
MaxCandles == 5
\* largest price, in ticks, of the candles tried on the imbalance detector
MaxTick == 10
\* most levels in one list handed to the level check
MaxLevels == 2
\* calls of the store's functions per behaviour
MaxOps == 3
\* the most timeframes in the ohlc_data handed to analyze_ohlc_data
MaxFrames == 2
\* the most intraday invocations that overlap
MaxPollers == 2
\* the most intraday invocations of one poller after its SOD invocation
MaxPolls == 1
\* workflow invocations per behaviour
MaxRuns == 1

(***************************************************************************)
(* Response texts.  A text is a sequence of tokens; each token stands for  *)
(* a run of characters of the response:                                    *)
(*   Fence   three backticks                                               *)
(*   JsonTag the word json (a language tag when it follows a Fence)        *)
(*   LBrace, RBrace  one brace character                                   *)
(*   Space   white space (blanks, newlines)                                *)
(*   Prose   a word of two or more letters, no brace, no backtick          *)
(*   Scalar  a JSON number of two or more digits                           *)
(*   a member token: one complete "key": value pair of a JSON object, its  *)
(*           text free of braces and backticks                             *)
(*   StrOpen, StrClose  the text "note": " that opens a string member and  *)
(*           the quote that closes it; the string between them is a Fence  *)
(***************************************************************************)
Fence == "~~~"
JsonTag == "json"
LBrace == "{"
RBrace == "}"
Space == " "
Prose == "word"
Scalar == "42"
StrOpen == "note:<"
StrClose == ">"

OrderFields == {"type", "price", "stop_loss", "take_profit", "risk_pct"}

\* value of an order_intent that is JSON null
NullOrder == [isNull |-> TRUE, fields |-> {}]
\* value of an order_intent object carrying all five fields
FullOrder == [isNull |-> FALSE, fields |-> OrderFields]
\* value of an order_intent object without its price
PartialOrder == [isNull |-> FALSE, fields |-> OrderFields \ {"price"}]

\* member tokens: the key and the value each one decodes to
MemberTable ==
    [ m \in {"a:ENTER", "a:WAIT", "a:WATCH", "a:BUY",
             "o:full", "o:partial", "o:null",
             "tf:H1", "tf:H4", "tf:D1", "tf:W1", "tf:M15", "tf:M5", "n:H4"} |->
        CASE m = "a:ENTER"   -> [key |-> "action", val |-> "ENTER"]
          [] m = "tf:H1"     -> [key |-> "H1", val |-> <<"seen">>]
          [] m = "tf:H4"     -> [key |-> "H4", val |-> <<"seen">>]
          [] m = "tf:D1"     -> [key |-> "D1", val |-> <<"seen">>]
          [] m = "tf:W1"     -> [key |-> "W1", val |-> <<"seen">>]
          [] m = "tf:M15"    -> [key |-> "M15", val |-> <<"seen">>]
          [] m = "tf:M5"     -> [key |-> "M5", val |-> <<"seen">>]
          [] m = "n:H4"      -> [key |-> "next_requested_timeframes", val |-> <<"H4">>]
          [] m = "a:WAIT"    -> [key |-> "action", val |-> "WAIT"]
          [] m = "a:WATCH"   -> [key |-> "action", val |-> "WATCH"]
          [] m = "a:BUY"     -> [key |-> "action", val |-> "BUY"]
          [] m = "o:full"    -> [key |-> "order_intent", val |-> FullOrder]
          [] m = "o:partial" -> [key |-> "order_intent", val |-> PartialOrder]
          [] m = "o:null"    -> [key |-> "order_intent", val |-> NullOrder] ]

Members == DOMAIN MemberTable

Tokens == {Fence, JsonTag, LBrace, RBrace, Space, Prose, Scalar,
           StrOpen, StrClose} \cup Members

(***************************************************************************)
(* Python values.  A dict is a function from keys to values; every Python  *)
(* value is tagged with its type.                                          *)
(***************************************************************************)
EmptyDict == [k \in {} |-> TRUE]
PyDict(d) == [py |-> "dict", d |-> d]
PyScalar == [py |-> "int", d |-> EmptyDict]
\* the outcome of a call: a returned value or a raised exception
Returned(v) == [raised |-> "", value |-> v]
Raised(exc) == [raised |-> exc, value |-> PyDict(EmptyDict)]

\* no outcome yet
Pending == Raised("pending")

IsDict(v) == v.py = "dict"
Has(v, k) == IsDict(v) /\ k \in DOMAIN v.d

(***************************************************************************)
(* str.find, slicing and str.strip on token sequences.  Positions are      *)
(* Python positions: 0-based, -1 for "not found".                          *)
(***************************************************************************)
\* str.find(Fence, start)
FindFence(s, start) ==
    LET hits == {i \in start..(Len(s) - 1) : s[i + 1] = Fence}
    IN  IF hits = {} THEN -1 ELSE CHOOSE i \in hits : \A j \in hits : i <= j

\* str.find of a fence directly followed by the json tag
FindJsonFence(s) ==
    LET hits == {i \in 0..(Len(s) - 2) : s[i + 1] = Fence /\ s[i + 2] = JsonTag}
    IN  IF hits = {} THEN -1 ELSE CHOOSE i \in hits : \A j \in hits : i <= j

\* the token left when the last character of a token is cut off: a one
\* character token disappears, a word stays a word, a number stays a number,
\* anything else is no longer what it was and reads as a word
CutLastChar(s) ==
    IF s = <<>> THEN <<>>
    ELSE LET last == s[Len(s)]
             front == SubSeq(s, 1, Len(s) - 1)
         IN  IF last \in {LBrace, RBrace, Space, StrClose} THEN front
             ELSE IF last = Scalar THEN s
             ELSE Append(front, Prose)

\* s[start:end]; end = -1 (a failed find) cuts the last character
PySlice(s, start, end) ==
    IF end = -1 THEN CutLastChar(SubSeq(s, start + 1, Len(s)))
    ELSE SubSeq(s, start + 1, end)

RECURSIVE LStrip(_)
LStrip(s) == IF s # <<>> /\ Head(s) = Space THEN LStrip(Tail(s)) ELSE s

RECURSIVE RStrip(_)
RStrip(s) ==
    IF s # <<>> /\ s[Len(s)] = Space THEN RStrip(SubSeq(s, 1, Len(s) - 1)) ELSE s

\* str.strip()
Strip(s) == RStrip(LStrip(s))

(***************************************************************************)
(* re.search of an opening brace, anything, a closing brace with DOTALL:   *)
(* greedy, from the first opening brace to the last closing brace after    *)
(* it; the empty sequence when there is no match.                          *)
(***************************************************************************)
ReSearchNonGreedy(s) ==
    LET ls == {i \in 1..Len(s) : s[i] = LBrace}
    IN  IF ls = {} THEN <<>>
        ELSE LET first == CHOOSE i \in ls : \A j \in ls : i <= j
                 rs == {i \in first..Len(s) : s[i] = RBrace}
             IN  IF rs = {} THEN <<>>
                 ELSE SubSeq(s, first, CHOOSE i \in rs : \A j \in rs : i <= j)

ReSearch(s) ==
    LET ls == {i \in 1..Len(s) : s[i] = LBrace}
        rs == {i \in 1..Len(s) : s[i] = RBrace}
    IN  IF ls = {} \/ rs = {} THEN <<>>
        ELSE LET first == CHOOSE i \in ls : \A j \in ls : i <= j
                 last == CHOOSE i \in rs : \A j \in rs : i >= j
             IN  IF first < last THEN SubSeq(s, first, last) ELSE <<>>

(***************************************************************************)
(* json.loads                                                              *)
(***************************************************************************)
RECURSIVE Depth(_, _)
\* brace nesting depth after the first i tokens
Depth(s, i) ==
    IF i = 0 THEN 0
    ELSE Depth(s, i - 1) + (IF s[i] = LBrace THEN 1
                            ELSE IF s[i] = RBrace THEN -1 ELSE 0)

\* s is the text of exactly one JSON object
IsObjectText(s) ==
    /\ Len(s) >= 2
    /\ s[1] = LBrace
    /\ s[Len(s)] = RBrace
    /\ \A i \in 1..(Len(s) - 1) : Depth(s, i) >= 1
    /\ Depth(s, Len(s)) = 0
    /\ \A i \in 1..Len(s) :
          \/ s[i] \in {LBrace, RBrace, Space} \cup Members
          \/ s[i] = StrOpen /\ i + 2 <= Len(s)
                            /\ s[i + 1] = Fence /\ s[i + 2] = StrClose
          \/ s[i] = Fence /\ 1 < i /\ i < Len(s)
                          /\ s[i - 1] = StrOpen /\ s[i + 1] = StrClose
          \/ s[i] = StrClose /\ 2 < i
                             /\ s[i - 1] = Fence /\ s[i - 2] = StrOpen

RECURSIVE DropSpace(_)
DropSpace(s) ==
    IF s = <<>> THEN <<>>
    ELSE IF Head(s) = Space THEN DropSpace(Tail(s))
    ELSE <<Head(s)>> \o DropSpace(Tail(s))

\* the dict an object text decodes to: its top-level members, a later member
\* replacing an earlier one with the same key; a nested object is the value
\* of the key state_update and is kept as its text without white space; a
\* string member is the value of the key note
DecodeObject(s) ==
    LET top == {i \in 1..Len(s) : s[i] \in Members /\ Depth(s, i) = 1}
        nested == {i \in 2..Len(s) : s[i] = LBrace /\ Depth(s, i) = 2}
        keys == {MemberTable[s[i]].key : i \in top}
        lastOf(k) == CHOOSE i \in top :
                        /\ MemberTable[s[i]].key = k
                        /\ \A j \in top : MemberTable[s[j]].key = k => j <= i
        lastNested == CHOOSE i \in nested : \A j \in nested : j <= i
        closeOf(i) == CHOOSE j \in (i + 1)..Len(s) :
                        /\ Depth(s, j) = 1
                        /\ \A m \in i..(j - 1) : Depth(s, m) >= 2
        strings == {i \in 1..Len(s) : s[i] = StrOpen /\ Depth(s, i) = 1}
        flat == [k \in keys |-> MemberTable[s[lastOf(k)]].val]
        withNote == IF strings = {} THEN flat ELSE flat @@ ("note" :> Fence)
    IN  IF nested = {} THEN withNote
        ELSE withNote @@ ("state_update" :>
                        DropSpace(SubSeq(s, lastNested, closeOf(lastNested))))

\* json.loads(s): a dict for an object text, a number for a bare number,
\* JSONDecodeError for anything else
JsonLoads(s) ==
    IF IsObjectText(Strip(s)) THEN Returned(PyDict(DecodeObject(Strip(s))))
    ELSE IF Strip(s) = <<Scalar>> THEN Returned(PyScalar)
    ELSE Raised("JSONDecodeError")

(***************************************************************************)
(* The response parsers                                                    *)
(***************************************************************************)
\* the text between the fences, or the whole text, stripped
ExtractJsonStr(response_text) ==
    IF FindJsonFence(response_text) # -1
    THEN LET json_start == FindJsonFence(response_text) + 2
             json_end == FindFence(response_text, json_start)
         IN  Strip(PySlice(response_text, json_start, json_end))
    ELSE IF FindFence(response_text, 0) # -1
    THEN LET json_start == FindFence(response_text, 0) + 1
             json_end == FindFence(response_text, json_start)
         IN  Strip(PySlice(response_text, json_start, json_end))
    ELSE Strip(response_text)

\* the try block: decode the regex match when there is one, else the string
DecodeJsonStr(json_str) ==
    IF ReSearch(json_str) # <<>> THEN JsonLoads(ReSearch(json_str))
    ELSE JsonLoads(json_str)

\* brain.py: the dict returned when decoding raised JSONDecodeError
BrainFallback(response_text) ==
    PyDict(("error" :> "Failed to parse AI response")
           @@ ("raw_response" :> response_text))

\* gpt_vision.py: the dict returned when decoding raised JSONDecodeError
VisionFallback ==
    PyDict(("action" :> "WAIT")
           @@ ("next_run_at_utc" :> "None")
           @@ ("error" :> "Failed to parse AI response"))

\* brain._parse_gpt_response
_parse_gpt_response(response_text) ==
    LET out == DecodeJsonStr(ExtractJsonStr(response_text))
    IN  IF out.raised = "JSONDecodeError"
        THEN Returned(BrainFallback(response_text))
        ELSE out

\* gpt_vision._parse_gpt_response
vision_parse_gpt_response(response_text) ==
    LET out == DecodeJsonStr(ExtractJsonStr(response_text))
    IN  IF out.raised = "JSONDecodeError"
        THEN Returned(VisionFallback)
        ELSE out

(***************************************************************************)
(* Response texts tried on the parsers: some text, a core, some text.      *)
(***************************************************************************)
PadTokens == {Fence, JsonTag, LBrace, RBrace, Space, Prose, Scalar, "a:BUY"}

Pads == UNION {[1..n -> PadTokens] : n \in 0..MaxPad}

Objects == { <<LBrace, RBrace>>,
             <<LBrace, "a:ENTER", RBrace>>,
             <<LBrace, "a:WATCH", LBrace, "o:full", RBrace, RBrace>>,
             <<LBrace, StrOpen, Fence, StrClose, RBrace>> }

Wraps == {"none", "json", "json_nl", "bare", "bare_nl", "json_open", "bare_open"}

ClosedFences == {"json", "json_nl", "bare", "bare_nl"}

Cores == [wrap : Wraps, obj : Objects] \cup {[wrap |-> "none", obj |-> <<>>]}

CoreText(core) ==
    CASE core.wrap = "none"      -> core.obj
      [] core.wrap = "json"      -> <<Fence, JsonTag>> \o core.obj \o <<Fence>>
      [] core.wrap = "json_nl"   -> <<Fence, JsonTag, Space>> \o core.obj
                                        \o <<Space, Fence>>
      [] core.wrap = "bare"      -> <<Fence>> \o core.obj \o <<Fence>>
      [] core.wrap = "bare_nl"   -> <<Fence, Space>> \o core.obj \o <<Space, Fence>>
      [] core.wrap = "json_open" -> <<Fence, JsonTag>> \o core.obj
      [] core.wrap = "bare_open" -> <<Fence>> \o core.obj

VARIABLES
    parts,          \* the response text under test: [pre, core, post]
    parsed,         \* outcome of brain._parse_gpt_response on it
    parsedVision    \* outcome of gpt_vision._parse_gpt_response on it

parseVars == <<parts, parsed, parsedVision>>

TextOf(p) == p.pre \o CoreText(p.core) \o p.post

(***************************************************************************)
(* The note store (database.py, table analysis_notes) and the clock        *)
(***************************************************************************)
\* src/brain.py:27
MARKET_DATA_CACHE_HOURS == 4
MinutesPerHour == 60
\* the cache threshold in minutes, the unit of the clock
CacheMinutes == MARKET_DATA_CACHE_HOURS * MinutesPerHour

\* the instants (minutes) at which something happens
ClockValues == {0, CacheMinutes - 1, CacheMinutes, CacheMinutes + 1}

\* created_at of a row whose column is NULL
NullTime == 0 - 1
\* created_at of a row whose text datetime.fromisoformat rejects
BadTime == 0 - 2

Symbol == "GBPUSD"
NoteTypes == {"sod_note", "last_run_note", "market_data_note"}

PyNone == [py |-> "None", d |-> EmptyDict]

\* no row under the key
NoRow == [present |-> FALSE, full_response |-> EmptyDict, created_at |-> NullTime]
Row(d, t) == [present |-> TRUE, full_response |-> d, created_at |-> t]

\* get_analysis_note: None when the query fails or finds no row, else the
\* stored dict with the row's created_at put under _db_created_at
get_analysis_note(tbl, note_type, dbOk) ==
    IF ~dbOk THEN PyNone
    ELSE IF ~tbl[note_type].present THEN PyNone
    ELSE PyDict(("_db_created_at" :> tbl[note_type].created_at)
                @@ tbl[note_type].full_response)

\* save_analysis_note: the table after the call; a failed statement and a
\* full_response that is no dict (the .get raises inside the try) change nothing
save_analysis_note_keep(tbl, note_type, full_response, t, dbOk) ==
    IF dbOk /\ IsDict(full_response) /\ ~tbl[note_type].present
    THEN [tbl EXCEPT ![note_type] = Row(full_response.d, t)]
    ELSE tbl

save_analysis_note(tbl, note_type, full_response, t, dbOk) ==
    IF dbOk /\ IsDict(full_response)
    THEN [tbl EXCEPT ![note_type] = Row(full_response.d, t)]
    ELSE tbl

\* clear_analysis_notes: the table after the call
clear_analysis_notes_others(tbl, note_types, dbOk) ==
    IF dbOk THEN [n \in NoteTypes |-> IF n \notin note_types THEN NoRow ELSE tbl[n]]
    ELSE tbl

clear_analysis_notes(tbl, note_types, dbOk) ==
    IF dbOk THEN [n \in NoteTypes |-> IF n \in note_types THEN NoRow ELSE tbl[n]]
    ELSE tbl

\* src/api_server.py:199
max_trades_per_day == 10
\* numbers of rows of current_positions tried
PositionCounts == {0, max_trades_per_day}

\* get_current_positions: the number of positions returned; [] when the
\* query fails
get_current_positions(rows, dbOk) == IF dbOk THEN rows ELSE 0

(***************************************************************************)
(* Collaborators                                                           *)
(***************************************************************************)
\* get_market_data never raises: a provider that fails leaves its part of
\* the mapping empty or holding the failure text
get_market_data(t, providersOk) ==
    PyDict(("symbol" :> Symbol)
           @@ ("timestamp" :> t)
           @@ ("risk_assets" :> IF providersOk THEN "quotes" ELSE "none"))

\* analyze_ohlc_data(ohlc_data, locked_levels) has two required parameters;
\* _run_ohlc passes one, so the call raises TypeError before the body runs
analyze_ohlc_data(nargs) ==
    IF nargs < 2 THEN Raised("TypeError")
    ELSE Returned(PyDict("fvgs" :> "list"))

_run_ohlc == analyze_ohlc_data(1)

(***************************************************************************)
(* Chart observation (chart_analyzer.py)                                   *)
(***************************************************************************)
\* the keys of TIMEFRAME_MAP a request is made of
ChartTimeframes == {"H1", "H4", "D1", "W1", "M15", "M5"}

\* what get_chart_image_base64 returns: the base64 text of the image, the
\* empty text (status 200 with an empty body), or None
ImageOutcomes == {"png", "", "None"}

\* the member token of a timeframe in a vision response
TfMember(tf) ==
    CASE tf = "H1" -> "tf:H1" [] tf = "H4" -> "tf:H4" [] tf = "D1" -> "tf:D1"
      [] tf = "W1" -> "tf:W1" [] tf = "M15" -> "tf:M15" [] tf = "M5" -> "tf:M5"

\* a vision response: the JSON object with one member per timeframe of tfs
ChartObjectText(tfs) ==
    <<LBrace>> \o [i \in 1..Len(tfs) |-> TfMember(tfs[i])] \o <<RBrace>>

\* the fetch loop: the timeframes whose image is a non-empty text, in the
\* order of the request
fetch_chart_images(timeframes_, images) ==
    SelectSeq(timeframes_, LAMBDA tf : images[tf] = "png")

\* _parse_chart_response whose fallback carries no _parse_error
parse_chart_response_unmarked(response_text, chart_images) ==
    LET out == DecodeJsonStr(ExtractJsonStr(response_text))
    IN  IF out.raised = "JSONDecodeError"
        THEN Returned(PyDict(
                [tf \in {chart_images[i] : i \in 1..Len(chart_images)} |->
                        response_text]))
        ELSE out

\* _parse_chart_response: the decoded response, or on JSONDecodeError the raw
\* text under every timeframe of chart_images plus _parse_error
_parse_chart_response(response_text, chart_images) ==
    LET out == DecodeJsonStr(ExtractJsonStr(response_text))
    IN  IF out.raised = "JSONDecodeError"
        THEN Returned(PyDict(
                ("_parse_error" :> <<"JSONDecodeError">>)
                @@ [tf \in {chart_images[i] : i \in 1..Len(chart_images)} |->
                        response_text]))
        ELSE out

\* the requests made to the vision model: one, carrying the labels of the
\* fetched images in order, when there is a client and an image
vision_requests_of(timeframes_, images, clientOk) ==
    IF clientOk /\ fetch_chart_images(timeframes_, images) # <<>>
    THEN <<fetch_chart_images(timeframes_, images)>>
    ELSE <<>>

\* analyze_charts_with_gpt_vision that answers an empty mapping when no
\* image could be fetched
analyze_charts_quiet(timeframes_, images, clientOk, vision) ==
    LET chart_images == fetch_chart_images(timeframes_, images)
    IN  IF ~clientOk THEN Raised("ValueError")
        ELSE IF chart_images = <<>>
        THEN Returned(PyDict("chart_analysis" :> PyDict(EmptyDict)))
        ELSE IF vision.raised # "" THEN Raised(vision.raised)
        ELSE Returned(PyDict(
                ("chart_analysis" :>
                    _parse_chart_response(vision.value, chart_images).value)
                @@ ("_metadata" :>
                    [timeframes_analyzed |-> chart_images,
                     timeframes_requested |-> timeframes_])))

\* analyze_charts_with_gpt_vision: ValueError without a client or without any
\* image, the vision call's exception re-raised, else the parsed response
\* under chart_analysis and the metadata
analyze_charts_with_gpt_vision(timeframes_, images, clientOk, vision) ==
    LET chart_images == fetch_chart_images(timeframes_, images)
    IN  IF ~clientOk THEN Raised("ValueError")
        ELSE IF chart_images = <<>> THEN Raised("ValueError")
        ELSE IF vision.raised # "" THEN Raised(vision.raised)
        ELSE Returned(PyDict(
                ("chart_analysis" :>
                    _parse_chart_response(vision.value, chart_images).value)
                @@ ("_metadata" :>
                    [timeframes_analyzed |-> chart_images,
                     timeframes_requested |-> timeframes_])))

\* the timeframe lists tried: no repetition, at most MaxTimeframes long
TimeframeLists ==
    { l \in UNION {[1..n -> ChartTimeframes] : n \in 1..MaxTimeframes} :
        \A i \in 1..Len(l) : \A j \in 1..Len(l) : i # j => l[i] # l[j] }

\* what the vision call does for a request carrying the labels sent: it
\* raises, or answers an object keyed by the labels, the object of the
\* prompt's example (H1 and H4), an object in a json fence, prose, a number
VisionOutcomes(sent) ==
    { Raised("APIError"),
      Returned(ChartObjectText(sent)),
      Returned(ChartObjectText(<<"H1", "H4">>)),
      Returned(<<Fence, JsonTag, Space>> \o ChartObjectText(sent) \o <<Space, Fence>>),
      Returned(<<Prose, Space, Prose>>),
      Returned(<<Scalar>>) }

VARIABLES
    req_timeframes,     \* analyze_charts_with_gpt_vision: the timeframes argument
    req_images,         \* timeframe -> outcome of its get_chart_image_base64 call
    client,             \* an OpenAI client is configured
    vision_requests,    \* the requests made to the vision model, in order
    response,           \* outcome of the vision call, Pending before it
    chart_result        \* outcome of analyze_charts_with_gpt_vision

chartVars == <<req_timeframes, req_images, client, vision_requests, response,
               chart_result>>

\* chart observation at rest
IdleCharts ==
    /\ req_timeframes = <<>>
    /\ req_images = [tf \in ChartTimeframes |-> "None"]
    /\ client = TRUE
    /\ vision_requests = <<>>
    /\ response = Pending
    /\ chart_result = Pending

(***************************************************************************)
(* Pattern detection (ohlc_analyzer.py).  A candle is a record of its time *)
(* and its four prices; prices are whole numbers of ticks, so that the     *)
(* comparisons and the body ratio are exact.                               *)
(***************************************************************************)
Candle(t, o, h, l, c) == [time |-> t, open |-> o, high |-> h, low |-> l, close |-> c]

\* the FVG of the window around candle i, if any: the bullish test first,
\* the bearish one only when it fails
FvgAtInclusive(candles, i, timeframe) ==
    LET prev_candle == candles[i - 1]
        curr_candle == candles[i]
        next_candle == candles[i + 1]
    IN  IF prev_candle.high <= next_candle.low
        THEN << [type |-> "bullish", timeframe |-> timeframe,
                 top |-> next_candle.low, bottom |-> prev_candle.high,
                 timestamp |-> curr_candle.time, filled |-> FALSE] >>
        ELSE IF prev_candle.low >= next_candle.high
        THEN << [type |-> "bearish", timeframe |-> timeframe,
                 top |-> prev_candle.low, bottom |-> next_candle.high,
                 timestamp |-> curr_candle.time, filled |-> FALSE] >>
        ELSE <<>>

FvgAt(candles, i, timeframe) ==
    LET prev_candle == candles[i - 1]
        curr_candle == candles[i]
        next_candle == candles[i + 1]
    IN  IF prev_candle.high < next_candle.low
        THEN << [type |-> "bullish", timeframe |-> timeframe,
                 top |-> next_candle.low, bottom |-> prev_candle.high,
                 timestamp |-> curr_candle.time, filled |-> FALSE] >>
        ELSE IF prev_candle.low > next_candle.high
        THEN << [type |-> "bearish", timeframe |-> timeframe,
                 top |-> prev_candle.low, bottom |-> next_candle.high,
                 timestamp |-> curr_candle.time, filled |-> FALSE] >>
        ELSE <<>>

\* the loop of _detect_fvgs over the windows around candles 2..n
RECURSIVE FvgLoop(_, _, _)
FvgLoop(candles, n, timeframe) ==
    IF n < 2 THEN <<>>
    ELSE FvgLoop(candles, n - 1, timeframe) \o FvgAt(candles, n, timeframe)

_detect_fvgs(candles, timeframe) ==
    IF Len(candles) < 3 THEN <<>>
    ELSE FvgLoop(candles, Len(candles) - 1, timeframe)

\* the swings candle i contributes: a swing high, then a swing low
SwingAt(candles, i) ==
    LET prev == candles[i - 1]
        curr == candles[i]
        next_c == candles[i + 1]
    IN  (IF curr.high > prev.high /\ curr.high > next_c.high
         THEN << [type |-> "high", price |-> curr.high, time |-> curr.time] >>
         ELSE <<>>)
        \o
        (IF curr.low < prev.low /\ curr.low < next_c.low
         THEN << [type |-> "low", price |-> curr.low, time |-> curr.time] >>
         ELSE <<>>)

RECURSIVE SwingLoop(_, _)
SwingLoop(candles, n) ==
    IF n < 2 THEN <<>>
    ELSE SwingLoop(candles, n - 1) \o SwingAt(candles, n)

\* _find_swings; a swing's price is stored under the key of its type
_find_swings(candles) ==
    IF Len(candles) < 3 THEN <<>>
    ELSE SwingLoop(candles, Len(candles) - 1)

\* prev_swing.get(key): the price when the swing is of that type, else None;
\* the test is on its truth value, and a price of 0 is false
SwingGet(swing, key) == swing.type = key /\ swing.price # 0

\* the signal swing i of the list contributes, compared with swing i - 1
BosAt(swings, i, timeframe) ==
    LET swing == swings[i]
        prev_swing == swings[i - 1]
    IN  IF swing.type = "high" /\ SwingGet(prev_swing, "high")
        THEN IF swing.price > prev_swing.price
             THEN << [type |-> "bullish", timeframe |-> timeframe,
                      price |-> swing.price, timestamp |-> swing.time,
                      previous_swing |-> prev_swing.price] >>
             ELSE <<>>
        ELSE IF swing.type = "low" /\ SwingGet(prev_swing, "low")
        THEN IF swing.price < prev_swing.price
             THEN << [type |-> "bearish", timeframe |-> timeframe,
                      price |-> swing.price, timestamp |-> swing.time,
                      previous_swing |-> prev_swing.price] >>
             ELSE <<>>
        ELSE <<>>

RECURSIVE BosLoop(_, _, _)
BosLoop(swings, n, timeframe) ==
    IF n < 2 THEN <<>>
    ELSE BosLoop(swings, n - 1, timeframe) \o BosAt(swings, n, timeframe)

_detect_bos(candles, timeframe) ==
    IF Len(candles) < 5 THEN <<>>
    ELSE BosLoop(_find_swings(candles), Len(_find_swings(candles)), timeframe)

\* body_ratio > 0.7, as a comparison of whole numbers
ImbalanceNum == 7
ImbalanceDen == 10

Abs(x) == IF x < 0 THEN 0 - x ELSE x

ImbalanceAtInclusive(candle, timeframe) ==
    LET body_size == Abs(candle.close - candle.open)
        total_range == candle.high - candle.low
    IN  IF total_range > 0 /\ body_size * ImbalanceDen >= ImbalanceNum * total_range
        THEN << [type |-> IF candle.close > candle.open THEN "bullish" ELSE "bearish",
                 timeframe |-> timeframe,
                 price |-> candle.close,
                 timestamp |-> candle.time,
                 strength |-> <<body_size, total_range>>] >>
        ELSE <<>>

\* what one candle contributes to the imbalances; strength is the ratio
\* body_size / total_range, kept as the pair
ImbalanceAt(candle, timeframe) ==
    LET body_size == Abs(candle.close - candle.open)
        total_range == candle.high - candle.low
    IN  IF total_range > 0 /\ body_size * ImbalanceDen > ImbalanceNum * total_range
        THEN << [type |-> IF candle.close > candle.open THEN "bullish" ELSE "bearish",
                 timeframe |-> timeframe,
                 price |-> candle.close,
                 timestamp |-> candle.time,
                 strength |-> <<body_size, total_range>>] >>
        ELSE <<>>

RECURSIVE ImbalanceLoop(_, _, _)
ImbalanceLoop(candles, n, timeframe) ==
    IF n < 1 THEN <<>>
    ELSE ImbalanceLoop(candles, n - 1, timeframe) \o ImbalanceAt(candles[n], timeframe)

_detect_imbalances(candles, timeframe) ==
    ImbalanceLoop(candles, Len(candles), timeframe)

\* prices of the candles the swing and gap detectors are tried on
SwingPrices == {1, 2, 3}

\* [low, high] shapes of those candles: open at the low, close at the high
SwingShapes == {p \in SwingPrices \X SwingPrices : p[1] <= p[2]}

\* the series of such candles with the shapes f, the time of a candle being
\* its place in the series
SwingSeries(f) ==
    [i \in DOMAIN f |-> Candle(i, f[i][1], f[i][2], f[i][1], f[i][2])]

\* candles tried on the imbalance detector: no range, or the range 0..MaxTick
\* with the open at one end and the close anywhere
ImbalanceShapes ==
    { <<0, 0, 0, 0>> } \cup
    { <<o, MaxTick, 0, c>> : o \in {0, MaxTick}, c \in 0..MaxTick }

ImbalanceSeries(f) ==
    [i \in DOMAIN f |-> Candle(i, f[i][1], f[i][2], f[i][3], f[i][4])]

VARIABLES
    candles,            \* the H1 series handed to the detectors
    opc,                \* the next detector to run: "fvg", "bos", "imbalance", "done"
    fvgs,               \* analysis["fvgs"]
    bos_signals,        \* analysis["bos_signals"]
    imbalances          \* analysis["imbalances"]

ohlcVars == <<candles, opc, fvgs, bos_signals, imbalances>>

\* pattern detection at rest
IdleOhlc ==
    /\ candles = <<>>
    /\ opc = "done"
    /\ fvgs = <<>>
    /\ bos_signals = <<>>
    /\ imbalances = <<>>

(***************************************************************************)
(* Level interactions (ohlc_analyzer.py).  Prices are whole numbers of     *)
(* points, the fifth decimal of a price, so that the distance in pips is   *)
(* exact.                                                                  *)
(***************************************************************************)
\* points in one unit of price: prices carry five decimals
PriceScale == 100000
\* distance = abs(current_price - level_price) * 10000
PipFactor == 10000
\* if distance < 20
WithinPips == 20
\* "near" if distance < 10
NearPips == 10

\* level.get("price") of a level without a price
NoPrice == 0 - 1

\* one pass of the loop: the interaction appended for the level, if any.  The
\* distance is kept in pips times PriceScale.
InteractionOfInclusive(current_price_, level) ==
    IF level.price = NoPrice \/ level.price = 0 THEN <<>>
    ELSE LET distance == Abs(current_price_ - level.price) * PipFactor
         IN  IF distance <= WithinPips * PriceScale
             THEN << [level_id |-> level.id,
                      level_price |-> level.price,
                      current_price |-> current_price_,
                      distance_pips |-> distance,
                      status |-> IF distance < NearPips * PriceScale
                                 THEN "near" ELSE "approaching"] >>
             ELSE <<>>

InteractionOf(current_price_, level) ==
    IF level.price = NoPrice \/ level.price = 0 THEN <<>>
    ELSE LET distance == Abs(current_price_ - level.price) * PipFactor
         IN  IF distance < WithinPips * PriceScale
             THEN << [level_id |-> level.id,
                      level_price |-> level.price,
                      current_price |-> current_price_,
                      distance_pips |-> distance,
                      status |-> IF distance < NearPips * PriceScale
                                 THEN "near" ELSE "approaching"] >>
             ELSE <<>>

RECURSIVE InteractionLoop(_, _, _)
InteractionLoop(current_price_, levels, n) ==
    IF n = 0 THEN <<>>
    ELSE InteractionLoop(current_price_, levels, n - 1)
         \o InteractionOf(current_price_, levels[n])

_check_level_interactions(current_price_, levels) ==
    InteractionLoop(current_price_, levels, Len(levels))

\* the current prices tried: 1.25000 and 1.25099
CurrentPrices == {125000, 125099}
\* the prices of the levels tried, as offsets in points from 1.25000
LevelOffsets == {0 - 201, 0 - 200, 0 - 199, 0 - 100, 0 - 99, 0, 99, 100, 199, 200}
\* level.get("price"): a price around the current one, 0, or None
LevelPrices == {125000 + o : o \in LevelOffsets} \cup {0, NoPrice}

VARIABLES
    current_price,      \* ohlc_data.get("current_price"), in points
    locked_levels,      \* the levels handed to analyze_ohlc_data
    lpc,                \* "check" before the level check, "done" after it
    level_interactions  \* analysis["level_interactions"]

levelVars == <<current_price, locked_levels, lpc, level_interactions>>

\* the level check at rest
IdleLevels ==
    /\ current_price = 0
    /\ locked_levels = <<>>
    /\ lpc = "done"
    /\ level_interactions = <<>>

(***************************************************************************)
(* analyze_ohlc_data (ohlc_analyzer.py): the body that runs once the call  *)
(* has both its arguments.  ohlc_data maps the labels of the timeframes    *)
(* present to their series; current_price is kept beside it.               *)
(***************************************************************************)
\* ohlc_data.get(key, [])
SeriesOf(ohlc_data_, key) ==
    IF key \in DOMAIN ohlc_data_ THEN ohlc_data_[key] ELSE <<>>

\* a detector run on a series, under "if <series>:" (an empty list is false)
IfSeries(series, found) == IF series # <<>> THEN found ELSE <<>>

\* h1_data[-10:] when there are 10 candles or more, else h1_data
RecentCandles(h1_data) ==
    IF Len(h1_data) >= 10 THEN SubSeq(h1_data, Len(h1_data) - 9, Len(h1_data))
    ELSE h1_data

\* _analyze_price_action: {} without H1 candles or without a current price
_analyze_price_action(ohlc_data_, current_price_) ==
    LET h1_data == SeriesOf(ohlc_data_, "H1")
        recent_candles == RecentCandles(h1_data)
    IN  IF h1_data = <<>> \/ current_price_ \in {0, NoPrice} THEN PyDict(EmptyDict)
        ELSE PyDict(
              ("current_price" :> current_price_)
              @@ ("trend" :> IF Len(recent_candles) >= 2
                             THEN IF recent_candles[Len(recent_candles)].close
                                         > recent_candles[1].close
                                  THEN "bullish" ELSE "bearish"
                             ELSE "neutral")
              @@ ("recent_candles_count" :> Len(recent_candles)))

\* lines 28-69: the bundle returned.  Every detector runs on H1; M15 and M5
\* get the FVG and BOS detectors, M1 the FVG detector, no other key is read
analyze_ohlc_body(ohlc_data_, current_price_, locked_levels_) ==
    LET h1_data == SeriesOf(ohlc_data_, "H1")
        m15_data == SeriesOf(ohlc_data_, "M15")
        m5_data == SeriesOf(ohlc_data_, "M5")
        m1_data == SeriesOf(ohlc_data_, "M1")
    IN  [fvgs |-> IfSeries(h1_data, _detect_fvgs(h1_data, "H1"))
                  \o IfSeries(m15_data, _detect_fvgs(m15_data, "M15"))
                  \o IfSeries(m5_data, _detect_fvgs(m5_data, "M5"))
                  \o IfSeries(m1_data, _detect_fvgs(m1_data, "M1")),
         bos_signals |-> IfSeries(h1_data, _detect_bos(h1_data, "H1"))
                         \o IfSeries(m15_data, _detect_bos(m15_data, "M15"))
                         \o IfSeries(m5_data, _detect_bos(m5_data, "M5")),
         imbalances |-> IfSeries(h1_data, _detect_imbalances(h1_data, "H1")),
         level_interactions |->
             IF current_price_ \notin {0, NoPrice} /\ locked_levels_ # <<>>
             THEN _check_level_interactions(current_price_, locked_levels_)
             ELSE <<>>,
         price_action |-> _analyze_price_action(ohlc_data_, current_price_)]

\* the labels tried as keys of ohlc_data
AnalyzeLabels == {"H1", "M15", "M5", "M1", "H4"}

\* the series tried: none, three candles with a gap between the first and
\* the third, five candles with two rising swing highs
GapSeries == SwingSeries(<< <<1, 1>>, <<1, 3>>, <<2, 3>> >>)
TrendSeries == SwingSeries(<< <<1, 1>>, <<1, 2>>, <<1, 1>>, <<1, 3>>, <<1, 1>> >>)
SeriesPool == {<<>>, GapSeries, TrendSeries}

VARIABLES
    ohlc_data,          \* the series handed to analyze_ohlc_data, by label
    ohlc_price,         \* ohlc_data.get("current_price"), in points
    ohlc_levels,        \* the locked levels handed to analyze_ohlc_data
    apc,                \* "call" before analyze_ohlc_data ran, "done" after
    analysis            \* the bundle returned

analyzeVars == <<ohlc_data, ohlc_price, ohlc_levels, apc, analysis>>

NoAnalysis ==
    [fvgs |-> <<>>, bos_signals |-> <<>>, imbalances |-> <<>>,
     level_interactions |-> <<>>, price_action |-> PyDict(EmptyDict)]

\* analyze_ohlc_data at rest
IdleAnalyze ==
    /\ ohlc_data = <<>>
    /\ ohlc_price = 0
    /\ ohlc_levels = <<>>
    /\ apc = "done"
    /\ analysis = NoAnalysis

(***************************************************************************)
(* The tables of database.py, row by row.  A table is the set of its rows; *)
(* a statement that raises leaves the table as it was (no commit).         *)
(***************************************************************************)
\* SQL NULL / Python None in a text column
Null == "NULL"
\* dict.get finds no such key
Absent == "absent"

Symbols == {"GBPUSD", "EURUSD"}
Sessions == {Null, "London"}

\* a level as save_locked_levels is handed it
Level(type, price, zone_top, zone_bottom, timeframe, metadata) ==
    [type |-> type, price |-> price, zone_top |-> zone_top,
     zone_bottom |-> zone_bottom, timeframe |-> timeframe, metadata |-> metadata]

\* UNIQUE(symbol, session, price, level_type): the rows the INSERT conflicts
\* with.  A NULL session equals nothing, not even another NULL.
LevelConflicts(rows, symbol_, session, price, level_type) ==
    { r \in rows : /\ r.symbol = symbol_
                   /\ session # Null /\ r.session # Null /\ r.session = session
                   /\ r.price = price
                   /\ r.level_type = level_type }

\* one cursor.execute of the loop, on st = [rows, seq, failed]: the INSERT, or
\* its DO UPDATE; a level without a price violates NOT NULL
UpsertLevel(st, t, symbol_, session, level) ==
    IF st.failed \/ level.price = NoPrice THEN [st EXCEPT !.failed = TRUE]
    ELSE LET level_type == IF level.type = Absent THEN "level" ELSE level.type
             hit == LevelConflicts(st.rows, symbol_, session, level.price, level_type)
         IN  IF hit # {}
             THEN [st EXCEPT
                     !.rows = (st.rows \ hit) \cup
                              { [r EXCEPT !.zone_top = level.zone_top,
                                          !.zone_bottom = level.zone_bottom,
                                          !.timeframe = level.timeframe,
                                          !.metadata = level.metadata,
                                          !.invalidated_at = NullTime] : r \in hit },
                     !.seq = st.seq + 1]
             ELSE [st EXCEPT
                     !.rows = st.rows \cup
                              { [id |-> st.seq, symbol |-> symbol_, session |-> session,
                                 level_type |-> level_type, price |-> level.price,
                                 zone_top |-> level.zone_top,
                                 zone_bottom |-> level.zone_bottom,
                                 timeframe |-> level.timeframe,
                                 created_at |-> t, invalidated_at |-> NullTime,
                                 metadata |-> level.metadata] },
                     !.seq = st.seq + 1]

RECURSIVE LevelsLoop(_, _, _, _, _, _)
LevelsLoop(st, t, symbol_, session, levels, n) ==
    IF n = 0 THEN st
    ELSE UpsertLevel(LevelsLoop(st, t, symbol_, session, levels, n - 1),
                     t, symbol_, session, levels[n])

\* save_locked_levels: the table, the id sequence and the value returned
save_locked_levels(rows, seq, t, symbol_, levels, session, dbOk) ==
    LET st == LevelsLoop([rows |-> rows, seq |-> seq, failed |-> FALSE],
                         t, symbol_, session, levels, Len(levels))
    IN  IF dbOk /\ ~st.failed
        THEN [rows |-> st.rows, seq |-> st.seq, ok |-> TRUE]
        ELSE [rows |-> rows, seq |-> seq, ok |-> FALSE]

\* save_setup_state whose DO UPDATE also resets completed_at
save_setup_state_reopen(rows, t, symbol_, setup_id, state, session, dbOk) ==
    LET phase == IF state.phase = Absent THEN "WATCHING" ELSE state.phase
        hit == { r \in rows : r.setup_id = setup_id }
        upserted ==
            (rows \ hit) \cup
            (IF hit # {}
             THEN { [r EXCEPT !.phase = phase, !.state_data = state,
                              !.updated_at = t, !.completed_at = NullTime] : r \in hit }
             ELSE { [setup_id |-> setup_id, symbol |-> symbol_,
                     session |-> session, phase |-> phase,
                     state_data |-> state, created_at |-> t,
                     updated_at |-> t, completed_at |-> NullTime] })
    IN  IF ~dbOk THEN [rows |-> rows, ok |-> FALSE]
        ELSE IF phase = "STAND_DOWN"
        THEN [rows |-> { IF r.setup_id = setup_id
                         THEN [r EXCEPT !.completed_at = t] ELSE r
                         : r \in upserted },
              ok |-> TRUE]
        ELSE [rows |-> upserted, ok |-> TRUE]

\* save_setup_state: the upsert on the primary key setup_id, then the UPDATE
\* of completed_at when the phase is STAND_DOWN
save_setup_state(rows, t, symbol_, setup_id, state, session, dbOk) ==
    LET phase == IF state.phase = Absent THEN "WATCHING" ELSE state.phase
        hit == { r \in rows : r.setup_id = setup_id }
        upserted ==
            (rows \ hit) \cup
            (IF hit # {}
             THEN { [r EXCEPT !.phase = phase, !.state_data = state,
                              !.updated_at = t] : r \in hit }
             ELSE { [setup_id |-> setup_id, symbol |-> symbol_,
                     session |-> session, phase |-> phase,
                     state_data |-> state, created_at |-> t,
                     updated_at |-> t, completed_at |-> NullTime] })
    IN  IF ~dbOk THEN [rows |-> rows, ok |-> FALSE]
        ELSE IF phase = "STAND_DOWN"
        THEN [rows |-> { IF r.setup_id = setup_id
                         THEN [r EXCEPT !.completed_at = t] ELSE r
                         : r \in upserted },
              ok |-> TRUE]
        ELSE [rows |-> upserted, ok |-> TRUE]

\* the SELECT of get_active_setup: the rows cursor.fetchone() can return, by
\* setup_id when one is given, else the newest open setup of the symbol
active_setups_select(rows, symbol_, setup_id) ==
    IF setup_id # Null
    THEN { r \in rows : r.setup_id = setup_id /\ r.completed_at = NullTime }
    ELSE LET open == { r \in rows : r.symbol = symbol_ /\ r.completed_at = NullTime }
         IN  { r \in open : \A o \in open : o.created_at <= r.created_at }

\* get_active_setup: the values the call can return
get_active_setup(rows, symbol_, setup_id, dbOk) ==
    LET found == active_setups_select(rows, symbol_, setup_id)
    IN  IF ~dbOk \/ found = {} THEN {PyNone}
        ELSE { PyDict([setup_id |-> r.setup_id, symbol |-> r.symbol,
                       session |-> r.session, phase |-> r.phase,
                       state_data |-> r.state_data, created_at |-> r.created_at,
                       updated_at |-> r.updated_at]) : r \in found }

\* UNIQUE(symbol, note_type): the rows the INSERT conflicts with
NoteConflicts(rows, symbol_, note_type) ==
    { r \in rows : r.symbol = symbol_ /\ r.note_type = note_type }

\* save_analysis_note whose INSERT has no ON CONFLICT clause to stop it
analysis_notes_append(rows, seq, t, symbol_, note_type, full_response, dbOk) ==
    IF dbOk /\ IsDict(full_response)
    THEN [rows |-> rows \cup { [id |-> seq, symbol |-> symbol_,
                                note_type |-> note_type,
                                full_response |-> full_response.d,
                                created_at |-> t] },
          seq |-> seq + 1, ok |-> TRUE]
    ELSE [rows |-> rows, seq |-> seq, ok |-> FALSE]

\* save_analysis_note on the rows of analysis_notes: the INSERT, or its DO
\* UPDATE of full_response and created_at
analysis_notes_upsert(rows, seq, t, symbol_, note_type, full_response, dbOk) ==
    LET hit == NoteConflicts(rows, symbol_, note_type)
    IN  IF dbOk /\ IsDict(full_response)
        THEN [rows |-> (rows \ hit) \cup
                       (IF hit # {}
                        THEN { [r EXCEPT !.full_response = full_response.d,
                                         !.created_at = t] : r \in hit }
                        ELSE { [id |-> seq, symbol |-> symbol_,
                                note_type |-> note_type,
                                full_response |-> full_response.d,
                                created_at |-> t] }),
              seq |-> seq + 1, ok |-> TRUE]
        ELSE [rows |-> rows, seq |-> seq, ok |-> FALSE]

\* clear_analysis_notes on the rows of analysis_notes: DELETE ... WHERE symbol
\* = %s AND note_type IN (...); an empty list makes IN () a syntax error
analysis_notes_delete(rows, symbol_, note_types, dbOk) ==
    IF dbOk /\ note_types # <<>>
    THEN [rows |-> { r \in rows :
                        ~(/\ r.symbol = symbol_
                          /\ \E i \in 1..Len(note_types) : note_types[i] = r.note_type) },
          ok |-> TRUE]
    ELSE [rows |-> rows, ok |-> FALSE]

VARIABLES
    db_table,           \* the table the calls of this behaviour go to
    tbl_locked_levels,  \* rows of locked_levels
    tbl_active_setups,  \* rows of active_setups
    tbl_analysis_notes, \* rows of analysis_notes
    serial,             \* the next value of each id sequence
    db_ops,             \* calls made so far; call k runs at time k
    last_call           \* the last call: its function, arguments and result

dbVars == <<db_table, tbl_locked_levels, tbl_active_setups, tbl_analysis_notes,
            serial, db_ops, last_call>>

NoCall ==
    [fn |-> "", symbol |-> Null, session |-> Null, levels |-> <<>>,
     setup_id |-> Null, state |-> [phase |-> Absent], note_type |-> Null,
     payload |-> PyNone, note_types |-> <<>>, ok |-> FALSE]

\* the tables at rest
IdleDb ==
    /\ db_table = ""
    /\ tbl_locked_levels = {}
    /\ tbl_active_setups = {}
    /\ tbl_analysis_notes = {}
    /\ serial = [locked_levels |-> 1, analysis_notes |-> 1]
    /\ db_ops = 0
    /\ last_call = NoCall

(***************************************************************************)
(* Overlapping intraday invocations for one symbol: each poller runs       *)
(* _get_market_data_cached in a thread of its own, on the rows of          *)
(* analysis_notes.  A statement is one step; the steps of two pollers      *)
(* interleave freely.                                                      *)
(***************************************************************************)
\* get_analysis_note on the rows of analysis_notes: fetchone() of the SELECT
analysis_notes_select(rows, symbol_, note_type, dbOk) ==
    LET hit == NoteConflicts(rows, symbol_, note_type)
    IN  IF ~dbOk \/ hit = {} THEN PyNone
        ELSE LET r == CHOOSE r \in hit : TRUE
             IN  PyDict(("_db_created_at" :> r.created_at) @@ r.full_response)

\* a poller that has not called _get_market_data_cached
IdlePoller == [pc |-> "idle", cached |-> PyNone, data |-> PyNone, out |-> Pending]

VARIABLES
    race_now,           \* the clock of the pollers, in minutes
    poller,             \* poller -> its position, the note it read, what it fetched
    race_saves          \* the save_analysis_note calls made, in order

raceVars == <<race_now, poller, race_saves>>

\* no poller runs
IdleRace ==
    /\ race_now = 0
    /\ poller = <<>>
    /\ race_saves = <<>>

\* texts the reasoning service answers the decision call with
DecisionTexts ==
    { <<Fence, JsonTag, Space, LBrace, "a:ENTER", "o:full", RBrace, Space, Fence>>,
      <<LBrace, "a:WATCH", "o:partial", "n:H4", RBrace>>,
      <<LBrace, "a:BUY", RBrace>>,
      <<Prose, Prose>>,
      <<Scalar>> }

(***************************************************************************)
(* Workflow state                                                          *)
(***************************************************************************)
Branches == {"ohlc", "charts", "market"}
SodTimeframes == <<"H1", "H4", "D1", "W1">>

VARIABLES
    now,                \* the clock, in minutes
    notes,              \* table analysis_notes for Symbol: note_type -> row
    position_rows,      \* number of rows of current_positions for Symbol
    pc,                 \* where the running invocation is; "idle" or "done" between two
    kind,               \* "sod" or "intraday"
    runs,               \* invocations started so far
    ea_positions,       \* the request carried a non-empty positions list
    ohlc_keys,          \* list(ohlc_data.keys())
    timeframes,         \* timeframes handed to chart observation
    db_positions,       \* Step 0: number of positions read
    previous_run,       \* Step 0: last_run_note as read
    sod_note,           \* Step 0 (intraday): sod_note as read
    fut,                \* branch -> outcome of its future, Pending before it ends
    collected,          \* branches whose future the as_completed loop has handled
    mpc,                \* position of _get_market_data_cached
    cached,             \* _get_market_data_cached: the note as read
    read_at,            \* _get_market_data_cached: the clock when the age was computed
    fetch_calls,        \* get_market_data calls of this invocation
    processed_ohlc,
    chart_observations,
    market_context,
    market_from_cache,
    full_context,       \* the sections of the context, in order
    gpt_calls,          \* decision calls of this invocation
    decision_exc,       \* the exception the try block of Step 3 caught, "" if none
    result,             \* the parsed decision
    writes,             \* note-store writes of this invocation, in order
    ret,                \* outcome of sod_action / intraday_action
    http,               \* the endpoint's answer: [status, body]
    prior               \* history: what the poller's previous invocation did

wfVars == <<now, notes, position_rows, pc, kind, runs, ea_positions, ohlc_keys, prior, timeframes,
            db_positions, previous_run, sod_note, fut, collected, mpc, cached,
            read_at, fetch_calls, processed_ohlc, chart_observations,
            market_context, market_from_cache, full_context, gpt_calls,
            decision_exc, result, writes, ret, http>>

\* the variables of the specifications that run one function on its own
pureVars == <<parseVars, chartVars, ohlcVars, levelVars, analyzeVars, dbVars, raceVars>>

vars == <<pureVars, wfVars>>

NoHttp == [status |-> 0, body |-> PyNone]

\* no invocation came before
NoPrior ==
    [kind |-> "none", decided |-> FALSE, saved |-> FALSE, cleared |-> FALSE]

\* locals of an invocation before it has run
FreshLocals ==
    /\ db_positions = 0
    /\ previous_run = PyNone
    /\ sod_note = PyNone
    /\ fut = [b \in Branches |-> Pending]
    /\ collected = {}
    /\ mpc = "start"
    /\ cached = PyNone
    /\ read_at = 0
    /\ fetch_calls = 0
    /\ processed_ohlc = PyDict(EmptyDict)
    /\ chart_observations = PyDict(EmptyDict)
    /\ market_context = PyDict(EmptyDict)
    /\ market_from_cache = FALSE
    /\ full_context = <<>>
    /\ gpt_calls = 0
    /\ decision_exc = ""
    /\ result = PyNone
    /\ writes = <<>>
    /\ ret = Pending
    /\ http = NoHttp

\* the same values, for the locals of the invocation being entered
ResetLocals ==
    /\ db_positions' = 0
    /\ previous_run' = PyNone
    /\ sod_note' = PyNone
    /\ fut' = [b \in Branches |-> Pending]
    /\ collected' = {}
    /\ mpc' = "start"
    /\ cached' = PyNone
    /\ read_at' = 0
    /\ fetch_calls' = 0
    /\ processed_ohlc' = PyDict(EmptyDict)
    /\ chart_observations' = PyDict(EmptyDict)
    /\ market_context' = PyDict(EmptyDict)
    /\ market_from_cache' = FALSE
    /\ full_context' = <<>>
    /\ gpt_calls' = 0
    /\ decision_exc' = ""
    /\ result' = PyNone
    /\ writes' = <<>>
    /\ ret' = Pending
    /\ http' = NoHttp

\* a decision an earlier invocation stored
StoredDecision == _parse_gpt_response(<<LBrace, "a:WATCH", RBrace>>).value.d

\* what the table may hold when the first invocation is entered: nothing; a
\* market_data_note written outside save_analysis_note, whose created_at is
\* NULL or cannot be read back; or what earlier invocations at minute 0 left
InitStores ==
    { [n \in NoteTypes |-> NoRow],
      [n \in NoteTypes |-> IF n = "market_data_note"
                           THEN Row(get_market_data(0, TRUE).d, NullTime) ELSE NoRow],
      [n \in NoteTypes |-> IF n = "market_data_note"
                           THEN Row(get_market_data(0, TRUE).d, BadTime) ELSE NoRow],
      [n \in NoteTypes |->
          CASE n = "market_data_note" -> Row(get_market_data(0, TRUE).d, 0)
            [] n = "sod_note"         -> Row(StoredDecision, 0)
            [] n = "last_run_note"    -> NoRow],
      [n \in NoteTypes |->
          CASE n = "market_data_note" -> Row(get_market_data(0, FALSE).d, 0)
            [] n = "sod_note"         -> Row(StoredDecision, 0)
            [] n = "last_run_note"    -> Row(StoredDecision, 0)] }

InitWorkflow ==
    /\ now = 0
    /\ notes \in InitStores
    /\ position_rows \in PositionCounts
    /\ pc = "idle"
    /\ kind = "sod"
    /\ runs = 0
    /\ ea_positions = FALSE
    /\ prior = NoPrior
    /\ ohlc_keys = <<>>
    /\ timeframes = SodTimeframes
    /\ FreshLocals

IdleParse ==
    /\ parts = [pre |-> <<>>, core |-> [wrap |-> "none", obj |-> <<>>], post |-> <<>>]
    /\ parsed = Pending
    /\ parsedVision = Pending

Init ==
    /\ IdleParse /\ IdleCharts /\ IdleOhlc /\ IdleLevels /\ IdleAnalyze
    /\ IdleDb /\ IdleRace /\ InitWorkflow

(***************************************************************************)
(* Workflow operators                                                      *)
(***************************************************************************)
\* the keys of the ohlc_data trading_sod builds (api_server.py, lines 92-97)
SodKeys == <<"1h_DATA", "4h_DATA", "1D_DATA", "1W_DATA">>

\* the requests tried: the workflow, whether the request carries positions
\* of its own, and the keys of its ohlc_data (for intraday: none, one, five)
Requests ==
    { [kind |-> "sod", ea |-> FALSE, keys |-> SodKeys],
      [kind |-> "intraday", ea |-> TRUE, keys |-> <<>>],
      [kind |-> "intraday", ea |-> FALSE, keys |-> <<"M5">>],
      [kind |-> "intraday", ea |-> FALSE, keys |-> <<"H1", "M15", "M5", "H4", "D1">>] }

\* the most timeframes chart observation is run over (line 291)
MaxChartTimeframes == 4

\* line 291: list(ohlc_data.keys())[:4] or ["H1", "M15"]
IntradayTimeframes(keys) ==
    IF keys = <<>> THEN <<"H1", "M15">>
    ELSE IF Len(keys) <= MaxChartTimeframes THEN keys
    ELSE SubSeq(keys, 1, MaxChartTimeframes)

\* the as_completed loop after a future was handled: it goes on until every
\* future was
LoopPcFirst(coll) == "assemble"

LoopPc(coll) == IF coll = Branches THEN "assemble" ELSE "fanout"

\* _get_market_data_cached, lines 37-54: "use" the note as read, or "refresh"
CacheDecisionInclusive(note, t) ==
    IF ~IsDict(note) THEN "refresh"
    ELSE IF note.d["_db_created_at"] = NullTime THEN "refresh"
    ELSE IF note.d["_db_created_at"] = BadTime THEN "refresh"
    ELSE IF (t - note.d["_db_created_at"]) <= MARKET_DATA_CACHE_HOURS * MinutesPerHour
         THEN "use"
    ELSE "refresh"

CacheDecision(note, t) ==
    IF ~IsDict(note) THEN "refresh"
    ELSE IF note.d["_db_created_at"] = NullTime THEN "refresh"
    ELSE IF note.d["_db_created_at"] = BadTime THEN "refresh"
    ELSE IF (t - note.d["_db_created_at"]) < MARKET_DATA_CACHE_HOURS * MinutesPerHour
         THEN "use"
    ELSE "refresh"

\* the handlers of the as_completed loop: what the branch's variable becomes,
\* or the exception that leaves the loop
HandleOhlc(out) ==
    IF out.raised = "" THEN Returned(out.value)
    ELSE Returned(PyDict(EmptyDict))

HandleChartsUncaught(out) ==
    IF out.raised # "" THEN Raised(out.raised)
    ELSE IF ~IsDict(out.value.d["chart_analysis"]) THEN Raised("TypeError")
    ELSE Returned(out.value.d["chart_analysis"])

\* chart_result.get("chart_analysis", {}), then len() of it inside the try
HandleCharts(out) ==
    IF out.raised # "" THEN Returned(PyDict("error" :> out.raised))
    ELSE IF ~IsDict(out.value.d["chart_analysis"])
    THEN Returned(PyDict("error" :> "TypeError"))
    ELSE Returned(out.value.d["chart_analysis"])

HandleMarket(out) ==
    IF out.raised = "" THEN Returned(out.value)
    ELSE Returned(PyDict(EmptyDict))

\* line 338: market_from_cache = "_db_created_at" in market_context
FromCacheNonEmpty(market_context_) == market_context_.d # EmptyDict

FromCache(market_context_) == "_db_created_at" \in DOMAIN market_context_.d

\* the note the decision is saved under: sod_note for SOD (line 218),
\* last_run_note for intraday (line 414)
DecisionNoteTypeSod(k) == "sod_note"

DecisionNoteType(k) == IF k = "sod" THEN "sod_note" ELSE "last_run_note"

\* the dict the except clause of Step 3 returns
ErrorResponse(k, t) ==
    PyDict(("error" :> IF k = "sod" THEN "Failed to complete SOD analysis"
                       ELSE "Failed to complete intraday analysis")
           @@ ("symbol" :> Symbol)
           @@ ("analysis_timestamp" :> t))

\* Step 3, "except Exception": the outcome of the workflow when exc was
\* raised inside the try block
DecisionExceptMissing(k, exc, t) == Raised(exc)

DecisionExcept(k, exc, t) == Returned(ErrorResponse(k, t))

\* result["sod_metadata"] = {...} / result["intraday_metadata"] = {...}
AttachMetadata(k, res, prev, sod, tfs, fromCache) ==
    IF ~IsDict(res) THEN Raised("TypeError")
    ELSE IF k = "sod"
    THEN Returned(PyDict(
            ("sod_metadata" :>
                [chart_timeframes_analyzed |-> SodTimeframes,
                 previous_run_context_used |-> (prev # PyNone)])
            @@ res.d))
    ELSE Returned(PyDict(
            ("intraday_metadata" :>
                [timeframes_analyzed |-> tfs,
                 sod_context_used |-> (sod # PyNone),
                 last_run_context_used |-> (prev # PyNone),
                 market_data_from_cache |-> fromCache])
            @@ res.d))

\* trading_sod / trading_intraday: jsonify(result), 200, or the except
\* clause's 500
ApiRespond(out) ==
    IF out.raised = "" THEN [status |-> 200, body |-> out.value]
    ELSE [status |-> 500, body |-> PyDict("error" :> "Internal server error")]

Section(name, empty) == [name |-> name, empty |-> empty]
Opt(cond, sec) == IF cond THEN <<sec>> ELSE <<>>

\* Step 2: the sections of context_parts, in order
AssembleContext(k, prev, sod, npos, ea, ohlc, charts, market) ==
    <<Section("header", FALSE), Section("system", FALSE)>>
    \o (IF k = "sod"
        THEN Opt(prev # PyNone, Section("previous_run", FALSE))
        ELSE Opt(sod # PyNone, Section("sod_note", FALSE))
             \o Opt(prev # PyNone, Section("last_run", FALSE)))
    \o Opt(npos > 0, Section("db_positions", FALSE))
    \o Opt(ea, Section("ea_positions", FALSE))
    \o << Section("ohlc", ohlc.d = EmptyDict),
          Section("charts", charts.d = EmptyDict),
          Section("market", market.d = EmptyDict) >>

(***************************************************************************)
(* Workflow actions                                                        *)
(***************************************************************************)
UnchangedLocals ==
    UNCHANGED <<db_positions, previous_run, sod_note, fut, collected, mpc, cached,
                read_at, fetch_calls, processed_ohlc, chart_observations,
                market_context, market_from_cache, full_context, gpt_calls,
                decision_exc, result, writes, ret, http>>

\* time passes between two invocations; an invocation takes less than the
\* clock's unit
Tick ==
    /\ pc \in {"idle", "done"}
    /\ \E t \in ClockValues : t > now /\ now' = t
    /\ UNCHANGED <<pureVars, notes, position_rows, pc, kind, runs, ea_positions,
                   ohlc_keys, prior, timeframes>>
    /\ UnchangedLocals

\* a request reaches /api/trading/sod or /api/trading/intraday and the
\* workflow is entered
Enter(requests, most) ==
    /\ pc \in {"idle", "done"}
    /\ runs < most
    /\ runs' = runs + 1
    /\ pc' = "load"
    /\ \E req \in requests :
          /\ kind' = req.kind
          /\ ea_positions' = req.ea
          /\ ohlc_keys' = req.keys
          /\ timeframes' = IF req.kind = "sod" THEN SodTimeframes
                           ELSE IntradayTimeframes(req.keys)
    /\ ResetLocals
    /\ UNCHANGED <<pureVars, now, notes, position_rows>>

Start == Enter(Requests, MaxRuns) /\ UNCHANGED prior

\* Step 0: the sequential reads of the store; the store is reachable for
\* all of them or for none
LoadContext ==
    /\ pc = "load"
    /\ \E dbOk \in BOOLEAN :
          /\ db_positions' = get_current_positions(position_rows, dbOk)
          /\ previous_run' = get_analysis_note(notes, "last_run_note", dbOk)
          /\ sod_note' = IF kind = "intraday"
                         THEN get_analysis_note(notes, "sod_note", dbOk)
                         ELSE PyNone
    /\ pc' = "fanout"
    /\ UNCHANGED <<pureVars, now, notes, position_rows, kind, runs, ea_positions,
                   ohlc_keys, prior, timeframes, fut, collected, mpc, cached, read_at, fetch_calls,
                   processed_ohlc, chart_observations, market_context,
                   market_from_cache, full_context, gpt_calls, decision_exc,
                   result, writes, ret, http>>

BranchFrame ==
    UNCHANGED <<pureVars, now, position_rows, pc, kind, runs, ea_positions,
                ohlc_keys, prior, timeframes, db_positions, previous_run, sod_note, collected,
                processed_ohlc, chart_observations, market_context,
                market_from_cache, full_context, gpt_calls, decision_exc,
                result, ret, http>>

\* the pattern-detection future runs to its end
RunOhlc ==
    /\ pc = "fanout"
    /\ fut["ohlc"] = Pending
    /\ fut' = [fut EXCEPT !["ohlc"] = _run_ohlc]
    /\ UNCHANGED <<notes, mpc, cached, read_at, fetch_calls, writes>>
    /\ BranchFrame

\* the chart-observation future runs to its end
RunCharts ==
    /\ pc = "fanout"
    /\ fut["charts"] = Pending
    /\ \E outcome \in {"png", "None"} :
          LET images == [tf \in ChartTimeframes |-> outcome]
          IN  fut' = [fut EXCEPT !["charts"] =
                        analyze_charts_with_gpt_vision(
                            timeframes, images, TRUE,
                            Returned(ChartObjectText(timeframes)))]
    /\ UNCHANGED <<notes, mpc, cached, read_at, fetch_calls, writes>>
    /\ BranchFrame

\* a refresh that keeps a mapping out of the store when the providers failed
FetchAndSaveHealthy ==
    \E providersOk \in BOOLEAN, dbOk \in BOOLEAN :
        LET data == get_market_data(now, providersOk)
        IN  /\ notes' = IF providersOk
                        THEN save_analysis_note(notes, "market_data_note", data, now, dbOk)
                        ELSE notes
            /\ writes' = Append(writes, [op |-> "save", note_type |-> "market_data_note",
                                         payload |-> data, ok |-> dbOk])
            /\ fetch_calls' = fetch_calls + 1
            /\ fut' = [fut EXCEPT !["market"] = Returned(data)]
            /\ mpc' = "done"

\* get_market_data, then save_analysis_note: _fetch_market_data_sod, and
\* lines 56-59 of _get_market_data_cached
FetchAndSave ==
    \E providersOk \in BOOLEAN, dbOk \in BOOLEAN :
        LET data == get_market_data(now, providersOk)
        IN  /\ notes' = save_analysis_note(notes, "market_data_note", data, now, dbOk)
            /\ writes' = Append(writes, [op |-> "save", note_type |-> "market_data_note",
                                         payload |-> data, ok |-> dbOk])
            /\ fetch_calls' = fetch_calls + 1
            /\ fut' = [fut EXCEPT !["market"] = Returned(data)]
            /\ mpc' = "done"

\* SOD run through the cache of the intraday workflow
MarketSodCached ==
    /\ pc = "fanout"
    /\ kind = "sod"
    /\ fut["market"] = Pending
    /\ LET note == get_analysis_note(notes, "market_data_note", TRUE)
       IN  IF CacheDecision(note, now) = "use"
           THEN /\ fut' = [fut EXCEPT !["market"] = Returned(note)]
                /\ mpc' = "done"
                /\ UNCHANGED <<notes, writes, fetch_calls>>
           ELSE FetchAndSave
    /\ UNCHANGED <<cached, read_at>>
    /\ BranchFrame

\* SOD: the market future runs _fetch_market_data_sod
MarketSod ==
    /\ pc = "fanout"
    /\ kind = "sod"
    /\ fut["market"] = Pending
    /\ FetchAndSave
    /\ UNCHANGED <<cached, read_at>>
    /\ BranchFrame

\* a read whose cache hit writes the note back, renewing its created_at
MarketReadTouch ==
    /\ pc = "fanout"
    /\ kind = "intraday"
    /\ fut["market"] = Pending
    /\ mpc = "start"
    /\ \E dbOk \in BOOLEAN :
          LET note == get_analysis_note(notes, "market_data_note", dbOk)
          IN  /\ cached' = note
              /\ read_at' = now
              /\ IF CacheDecision(note, now) = "use"
                 THEN /\ fut' = [fut EXCEPT !["market"] = Returned(note)]
                      /\ mpc' = "done"
                      /\ notes' = save_analysis_note(notes, "market_data_note",
                                                    note, now, dbOk)
                 ELSE /\ fut' = fut
                      /\ mpc' = "refresh"
                      /\ notes' = notes
    /\ UNCHANGED <<fetch_calls, writes>>
    /\ BranchFrame

\* intraday: _get_market_data_cached reads the note and decides on its age
MarketRead ==
    /\ pc = "fanout"
    /\ kind = "intraday"
    /\ fut["market"] = Pending
    /\ mpc = "start"
    /\ \E dbOk \in BOOLEAN :
          LET note == get_analysis_note(notes, "market_data_note", dbOk)
          IN  /\ cached' = note
              /\ read_at' = now
              /\ IF CacheDecision(note, now) = "use"
                 THEN /\ fut' = [fut EXCEPT !["market"] = Returned(note)]
                      /\ mpc' = "done"
                 ELSE /\ fut' = fut
                      /\ mpc' = "refresh"
    /\ UNCHANGED <<notes, fetch_calls, writes>>
    /\ BranchFrame

\* intraday: _get_market_data_cached refreshes
MarketRefresh ==
    /\ pc = "fanout"
    /\ kind = "intraday"
    /\ mpc = "refresh"
    /\ FetchAndSave
    /\ UNCHANGED <<cached, read_at>>
    /\ BranchFrame

\* the as_completed loop handles one finished future
Collect ==
    /\ pc = "fanout"
    /\ \E b \in Branches \ collected :
          /\ fut[b] # Pending
          /\ collected' = collected \cup {b}
          /\ LET h == CASE b = "ohlc"   -> HandleOhlc(fut[b])
                        [] b = "charts" -> HandleCharts(fut[b])
                        [] b = "market" -> HandleMarket(fut[b])
             IN  IF h.raised # ""
                 THEN /\ ret' = Raised(h.raised)
                      /\ pc' = "respond"
                      /\ UNCHANGED <<processed_ohlc, chart_observations,
                                     market_context, market_from_cache>>
                 ELSE /\ ret' = ret
                      /\ pc' = LoopPc(collected')
                      /\ processed_ohlc' = IF b = "ohlc" THEN h.value
                                           ELSE processed_ohlc
                      /\ chart_observations' = IF b = "charts" THEN h.value
                                               ELSE chart_observations
                      /\ market_context' = IF b = "market" THEN h.value
                                           ELSE market_context
                      /\ market_from_cache' =
                            IF b = "market" /\ kind = "intraday" /\ fut[b].raised = ""
                            THEN FromCache(h.value)
                            ELSE market_from_cache
    /\ UNCHANGED <<pureVars, now, notes, position_rows, kind, runs, ea_positions,
                   ohlc_keys, prior, timeframes, db_positions, previous_run, sod_note, fut, mpc,
                   cached, read_at, fetch_calls, full_context, gpt_calls,
                   decision_exc, result, writes, http>>

\* Step 2
Assemble ==
    /\ pc = "assemble"
    /\ full_context' = AssembleContext(kind, previous_run, sod_note, db_positions,
                                       ea_positions, processed_ohlc,
                                       chart_observations, market_context)
    /\ pc' = "decide"
    /\ UNCHANGED <<pureVars, now, notes, position_rows, kind, runs, ea_positions,
                   ohlc_keys, prior, timeframes, db_positions, previous_run, sod_note, fut, collected,
                   mpc, cached, read_at, fetch_calls, processed_ohlc,
                   chart_observations, market_context, market_from_cache,
                   gpt_calls, decision_exc, result, writes, ret, http>>

DecideFrame ==
    UNCHANGED <<pureVars, now, position_rows, kind, runs, ea_positions,
                ohlc_keys, prior, timeframes, db_positions, previous_run, sod_note, fut, collected,
                mpc, cached, read_at, fetch_calls, processed_ohlc,
                chart_observations, market_context, market_from_cache,
                full_context, http>>

\* where the invocation goes on after "except Exception" of Step 3: the
\* return of lines 243-249 leaves the workflow, past the save and the clear
ExceptPcSave(k) == "save"

ExceptPc(k) == "respond"

\* a decision call that is made again after it failed
CallGptRetry ==
    /\ pc = "decide"
    /\ gpt_calls < 2
    /\ gpt_calls' = gpt_calls + 1
    /\ \/ /\ decision_exc' = "APIError"
          /\ UNCHANGED <<ret, result, pc>>
       \/ \E text \in DecisionTexts :
             LET out == _parse_gpt_response(text)
             IN  IF out.raised # ""
                 THEN /\ decision_exc' = out.raised
                      /\ ret' = DecisionExcept(kind, out.raised, now)
                      /\ result' = result
                      /\ pc' = "respond"
                 ELSE /\ decision_exc' = ""
                      /\ ret' = ret
                      /\ result' = out.value
                      /\ pc' = "save"
    /\ UNCHANGED <<notes, writes>>
    /\ DecideFrame

\* Step 3: call_gpt and _parse_gpt_response
CallGpt ==
    /\ pc = "decide"
    /\ gpt_calls' = gpt_calls + 1
    /\ \/ /\ decision_exc' = "APIError"
          /\ ret' = DecisionExcept(kind, "APIError", now)
          /\ result' = result
          /\ pc' = ExceptPc(kind)
       \/ \E text \in DecisionTexts :
             LET out == _parse_gpt_response(text)
             IN  IF out.raised # ""
                 THEN /\ decision_exc' = out.raised
                      /\ ret' = DecisionExcept(kind, out.raised, now)
                      /\ result' = result
                      /\ pc' = ExceptPc(kind)
                 ELSE /\ decision_exc' = ""
                      /\ ret' = ret
                      /\ result' = out.value
                      /\ pc' = "save"
    /\ UNCHANGED <<notes, writes>>
    /\ DecideFrame

\* a save whose failure ends the invocation with the error response
SaveNoteStrict ==
    /\ pc = "save"
    /\ \E dbOk \in BOOLEAN :
          LET nt == DecisionNoteType(kind)
              ok == dbOk /\ IsDict(result)
          IN  /\ notes' = save_analysis_note(notes, nt, result, now, dbOk)
              /\ writes' = Append(writes, [op |-> "save", note_type |-> nt,
                                           payload |-> result, ok |-> ok])
              /\ IF ok
                 THEN /\ pc' = IF kind = "sod" THEN "clear" ELSE "return"
                      /\ UNCHANGED <<decision_exc, ret>>
                 ELSE /\ pc' = "respond"
                      /\ decision_exc' = "SaveError"
                      /\ ret' = DecisionExcept(kind, "SaveError", now)
    /\ UNCHANGED <<gpt_calls, result>>
    /\ DecideFrame

\* Step 3: the decision is saved as sod_note / last_run_note
SaveNote ==
    /\ pc = "save"
    /\ \E dbOk \in BOOLEAN :
          LET nt == DecisionNoteType(kind)
          IN  /\ notes' = save_analysis_note(notes, nt, result, now, dbOk)
              /\ writes' = Append(writes, [op |-> "save", note_type |-> nt,
                                           payload |-> result,
                                           ok |-> dbOk /\ IsDict(result)])
    /\ pc' = IF kind = "sod" THEN "clear" ELSE "return"
    /\ UNCHANGED <<gpt_calls, decision_exc, result, ret>>
    /\ DecideFrame

\* Step 3 (SOD): last_run_note is cleared
ClearNote ==
    /\ pc = "clear"
    /\ \E dbOk \in BOOLEAN :
          /\ notes' = clear_analysis_notes(notes, {"last_run_note"}, dbOk)
          /\ writes' = Append(writes, [op |-> "clear", note_type |-> "last_run_note",
                                       payload |-> PyNone, ok |-> dbOk])
    /\ pc' = "return"
    /\ UNCHANGED <<gpt_calls, decision_exc, result, ret>>
    /\ DecideFrame

\* Step 3: the metadata is attached and the workflow returns
Return ==
    /\ pc = "return"
    /\ LET out == AttachMetadata(kind, result, previous_run, sod_note, timeframes,
                                 market_from_cache)
       IN  IF out.raised # ""
           THEN /\ decision_exc' = out.raised
                /\ ret' = DecisionExcept(kind, out.raised, now)
           ELSE /\ decision_exc' = decision_exc
                /\ ret' = out
    /\ pc' = "respond"
    /\ UNCHANGED <<notes, writes, gpt_calls, result>>
    /\ DecideFrame

\* the endpoint answers the request
Respond ==
    /\ pc = "respond"
    /\ http' = ApiRespond(ret)
    /\ pc' = "done"
    /\ UNCHANGED <<pureVars, now, notes, position_rows, kind, runs, ea_positions,
                   ohlc_keys, prior, timeframes, db_positions, previous_run, sod_note, fut, collected,
                   mpc, cached, read_at, fetch_calls, processed_ohlc,
                   chart_observations, market_context, market_from_cache,
                   full_context, gpt_calls, decision_exc, result, writes, ret>>

Next ==
    \/ Tick
    \/ Start
    \/ LoadContext
    \/ RunOhlc
    \/ RunCharts
    \/ MarketSod
    \/ MarketRead
    \/ MarketRefresh
    \/ Collect
    \/ Assemble
    \/ CallGpt
    \/ SaveNote
    \/ ClearNote
    \/ Return
    \/ Respond

Spec == Init /\ [][Next]_vars

(***************************************************************************)
(* One poller: its SOD invocation and then up to MaxPolls intraday         *)
(* invocations for Symbol, one after the other, on a store that holds the  *)
(* market data and the last run of earlier intraday runs and no SOD note.  *)
(***************************************************************************)
\* the store the poller starts on
PollStore ==
    [n \in NoteTypes |->
        CASE n = "market_data_note" -> Row(get_market_data(0, TRUE).d, 0)
          [] n = "sod_note"         -> NoRow
          [] n = "last_run_note"    -> Row(StoredDecision, 0)]

\* the requests the poller sends: the SOD request opens its day, the
\* intraday requests follow
PollRequests(sent) ==
    IF sent = 0 THEN { [kind |-> "sod", ea |-> FALSE, keys |-> SodKeys] }
    ELSE { [kind |-> "intraday", ea |-> FALSE, keys |-> <<"M5">>] }

InitPoll ==
    /\ now = 0
    /\ notes = PollStore
    /\ position_rows = 0
    /\ pc = "idle"
    /\ kind = "sod"
    /\ runs = 0
    /\ ea_positions = FALSE
    /\ prior = NoPrior
    /\ ohlc_keys = <<>>
    /\ timeframes = SodTimeframes
    /\ FreshLocals
    /\ IdleParse
    /\ IdleCharts
    /\ IdleOhlc
    /\ IdleLevels
    /\ IdleAnalyze
    /\ IdleDb
    /\ IdleRace

\* what the invocation that has ended did in its Step 3: whether its decision
\* call returned and was parsed, and whether the store took its save of
\* sod_note and its clear
Summary ==
    [kind |-> IF pc = "done" THEN kind ELSE "none",
     decided |-> result # PyNone,
     saved |-> \E i \in 1..Len(writes) :
                  writes[i].op = "save" /\ writes[i].note_type = "sod_note" /\ writes[i].ok,
     cleared |-> \E i \in 1..Len(writes) : writes[i].op = "clear" /\ writes[i].ok]

\* the poller's next request reaches its endpoint
StartPoll == Enter(PollRequests(runs), 1 + MaxPolls) /\ prior' = Summary

NextPoll ==
    \/ Tick
    \/ StartPoll
    \/ LoadContext
    \/ RunOhlc
    \/ RunCharts
    \/ MarketSod
    \/ MarketRead
    \/ MarketRefresh
    \/ Collect
    \/ Assemble
    \/ CallGpt
    \/ SaveNote
    \/ ClearNote
    \/ Return
    \/ Respond

SpecPoll == InitPoll /\ [][NextPoll]_vars

(***************************************************************************)
(* The parsers on their own: every response text made of a pad, a core and *)
(* a pad is handed to both parsers.                                        *)
(***************************************************************************)
\* the workflow at rest, for the specifications that do not run it
IdleWorkflow ==
    /\ now = 0
    /\ notes = [n \in NoteTypes |-> NoRow]
    /\ position_rows = 0
    /\ pc = "idle"
    /\ kind = "sod"
    /\ runs = 0
    /\ ea_positions = FALSE
    /\ prior = NoPrior
    /\ ohlc_keys = <<>>
    /\ timeframes = SodTimeframes
    /\ FreshLocals

InitParse ==
    /\ parts \in [pre : Pads, core : Cores, post : Pads]
    /\ parsed = Pending
    /\ parsedVision = Pending
    /\ IdleCharts
    /\ IdleOhlc
    /\ IdleLevels
    /\ IdleDb
    /\ IdleWorkflow
    /\ IdleAnalyze
    /\ IdleRace

\* brain._parse_gpt_response is applied to the text
ParseBrain ==
    /\ parsed = Pending
    /\ parsed' = _parse_gpt_response(TextOf(parts))
    /\ UNCHANGED <<parts, parsedVision, chartVars, ohlcVars, levelVars, dbVars, wfVars, analyzeVars, raceVars>>

\* gpt_vision._parse_gpt_response is applied to the text
ParseVision ==
    /\ parsedVision = Pending
    /\ parsedVision' = vision_parse_gpt_response(TextOf(parts))
    /\ UNCHANGED <<parts, parsed, chartVars, ohlcVars, levelVars, dbVars, wfVars, analyzeVars, raceVars>>

NextParse == ParseBrain \/ ParseVision

SpecParse == InitParse /\ [][NextParse]_vars

(***************************************************************************)
(* Chart observation on its own: one call of                               *)
(* analyze_charts_with_gpt_vision per behaviour.                           *)
(***************************************************************************)
InitCharts ==
    /\ req_timeframes \in TimeframeLists
    /\ req_images \in {f \in [ChartTimeframes -> ImageOutcomes] :
                          \A tf \in ChartTimeframes :
                              (\A i \in 1..Len(req_timeframes) : req_timeframes[i] # tf)
                                  => f[tf] = "None"}
    /\ client \in BOOLEAN
    /\ vision_requests = <<>>
    /\ response = Pending
    /\ chart_result = Pending
    /\ IdleParse
    /\ IdleOhlc
    /\ IdleLevels
    /\ IdleDb
    /\ IdleWorkflow
    /\ IdleAnalyze
    /\ IdleRace

\* analyze_charts_with_gpt_vision runs from the fetch loop to its return or
\* its raise
AnalyzeCharts ==
    /\ chart_result = Pending
    /\ vision_requests' = vision_requests_of(req_timeframes, req_images, client)
    /\ IF vision_requests' = <<>>
       THEN /\ response' = response
            /\ chart_result' = analyze_charts_with_gpt_vision(
                                    req_timeframes, req_images, client, Pending)
       ELSE \E vision \in VisionOutcomes(vision_requests'[1]) :
                /\ response' = vision
                /\ chart_result' = analyze_charts_with_gpt_vision(
                                        req_timeframes, req_images, client, vision)
    /\ UNCHANGED <<req_timeframes, req_images, client, parseVars, ohlcVars, levelVars, dbVars, wfVars, analyzeVars, raceVars>>

NextCharts == AnalyzeCharts

SpecCharts == InitCharts /\ [][NextCharts]_vars

(***************************************************************************)
(* Pattern detection on its own: the three detectors analyze_ohlc_data     *)
(* runs on the H1 series, in its order.                                    *)
(***************************************************************************)
InitOhlc ==
    /\ \/ \E n \in 0..MaxCandles :
             \E f \in [1..n -> SwingShapes] : candles = SwingSeries(f)
       \/ \E n \in 1..2 :
             \E f \in [1..n -> ImbalanceShapes] : candles = ImbalanceSeries(f)
    /\ opc = "fvg"
    /\ fvgs = <<>>
    /\ bos_signals = <<>>
    /\ imbalances = <<>>
    /\ IdleParse
    /\ IdleCharts
    /\ IdleLevels
    /\ IdleDb
    /\ IdleWorkflow
    /\ IdleAnalyze
    /\ IdleRace

DetectFvgs ==
    /\ opc = "fvg"
    /\ fvgs' = fvgs \o _detect_fvgs(candles, "H1")
    /\ opc' = "bos"
    /\ UNCHANGED <<candles, bos_signals, imbalances, parseVars, chartVars, levelVars, dbVars, wfVars, analyzeVars, raceVars>>

DetectBos ==
    /\ opc = "bos"
    /\ bos_signals' = bos_signals \o _detect_bos(candles, "H1")
    /\ opc' = "imbalance"
    /\ UNCHANGED <<candles, fvgs, imbalances, parseVars, chartVars, levelVars, dbVars, wfVars, analyzeVars, raceVars>>

DetectImbalances ==
    /\ opc = "imbalance"
    /\ imbalances' = imbalances \o _detect_imbalances(candles, "H1")
    /\ opc' = "done"
    /\ UNCHANGED <<candles, fvgs, bos_signals, parseVars, chartVars, levelVars, dbVars, wfVars, analyzeVars, raceVars>>

NextOhlc == DetectFvgs \/ DetectBos \/ DetectImbalances

SpecOhlc == InitOhlc /\ [][NextOhlc]_vars

(***************************************************************************)
(* The level check on its own: analyze_ohlc_data's call of                 *)
(* _check_level_interactions on a current price and a list of levels.      *)
(***************************************************************************)
InitLevels ==
    /\ current_price \in CurrentPrices
    /\ \E n \in 0..MaxLevels :
          \E f \in [1..n -> LevelPrices] :
              locked_levels = [i \in 1..n |-> [id |-> i, price |-> f[i]]]
    /\ lpc = "check"
    /\ level_interactions = <<>>
    /\ IdleParse
    /\ IdleCharts
    /\ IdleOhlc
    /\ IdleDb
    /\ IdleWorkflow
    /\ IdleAnalyze
    /\ IdleRace

\* lines 61-64: the check runs when there is a current price and a level
CheckLevels ==
    /\ lpc = "check"
    /\ level_interactions' =
          IF current_price # 0 /\ locked_levels # <<>>
          THEN _check_level_interactions(current_price, locked_levels)
          ELSE level_interactions
    /\ lpc' = "done"
    /\ UNCHANGED <<current_price, locked_levels, parseVars, chartVars, ohlcVars,
                   dbVars, wfVars, analyzeVars, raceVars>>

NextLevels == CheckLevels

SpecLevels == InitLevels /\ [][NextLevels]_vars

(***************************************************************************)
(* The store on its own: up to MaxOps calls of the save and clear          *)
(* functions of database.py.  Each function touches one table only, so a   *)
(* behaviour keeps to the functions of one table.                          *)
(***************************************************************************)
LevelA(p) == Level("support", p, p + 100, p - 100, "H1", "m1")
LevelB(p) == Level("support", p, NoPrice, NoPrice, "H4", "m2")
\* a level without a type, and one without a price
LevelC == Level(Absent, 125000, NoPrice, NoPrice, "H1", "m1")
LevelD == Level("support", NoPrice, NoPrice, NoPrice, "H1", "m1")

\* the lists of levels tried
LevelLists ==
    { <<LevelA(125000)>>, <<LevelB(125000)>>, <<LevelA(125100)>>,
      <<LevelB(125100)>>, <<LevelC>>, <<LevelD>>,
      <<LevelA(125000), LevelB(125100)>> }

\* a row the table may hold before the first call: a level that was saved
\* and later invalidated
InvalidatedLevel ==
    [id |-> 1, symbol |-> Symbol, session |-> "London", level_type |-> "support",
     price |-> 125000, zone_top |-> 125100, zone_bottom |-> 124900,
     timeframe |-> "H1", created_at |-> 0, invalidated_at |-> 0, metadata |-> "m1"]

SetupIds == {"s1", "s2"}
\* the states tried: without a phase, and with each of two phases
SetupStates == { [phase |-> Absent], [phase |-> "ENTERED"], [phase |-> "STAND_DOWN"] }

\* the values handed to save_analysis_note: two dicts and a number
NotePayloads == { PyDict(StoredDecision), get_market_data(0, TRUE), PyScalar }
RowNoteTypes == {"sod_note", "last_run_note"}
ClearLists == { <<>>, <<"sod_note">>, <<"sod_note", "last_run_note">> }

InitStore ==
    /\ db_table \in {"locked_levels", "active_setups", "analysis_notes"}
    /\ \/ /\ tbl_locked_levels = {}
          /\ serial = [locked_levels |-> 1, analysis_notes |-> 1]
       \/ /\ db_table = "locked_levels"
          /\ tbl_locked_levels = {InvalidatedLevel}
          /\ serial = [locked_levels |-> 2, analysis_notes |-> 1]
    /\ tbl_active_setups = {}
    /\ tbl_analysis_notes = {}
    /\ db_ops = 0
    /\ last_call = NoCall
    /\ IdleParse
    /\ IdleCharts
    /\ IdleOhlc
    /\ IdleLevels
    /\ IdleWorkflow
    /\ IdleAnalyze
    /\ IdleRace

StoreFrame == UNCHANGED <<db_table, parseVars, chartVars, ohlcVars, levelVars, wfVars, analyzeVars, raceVars>>

SaveLockedLevels ==
    /\ db_table = "locked_levels"
    /\ db_ops < MaxOps
    /\ db_ops' = db_ops + 1
    /\ \E levels \in LevelLists, session \in Sessions, dbOk \in BOOLEAN :
          LET out == save_locked_levels(tbl_locked_levels, serial.locked_levels,
                                        db_ops', Symbol, levels, session, dbOk)
          IN  /\ tbl_locked_levels' = out.rows
              /\ serial' = [serial EXCEPT !.locked_levels = out.seq]
              /\ last_call' = [NoCall EXCEPT !.fn = "save_locked_levels",
                                             !.symbol = Symbol,
                                             !.session = session,
                                             !.levels = levels,
                                             !.ok = out.ok]
    /\ UNCHANGED <<tbl_active_setups, tbl_analysis_notes>>
    /\ StoreFrame

SaveSetupState ==
    /\ db_table = "active_setups"
    /\ db_ops < MaxOps
    /\ db_ops' = db_ops + 1
    /\ \E setup_id \in SetupIds, state \in SetupStates, dbOk \in BOOLEAN :
          LET out == save_setup_state(tbl_active_setups, db_ops', Symbol, setup_id,
                                      state, Null, dbOk)
          IN  /\ tbl_active_setups' = out.rows
              /\ last_call' = [NoCall EXCEPT !.fn = "save_setup_state",
                                             !.symbol = Symbol,
                                             !.setup_id = setup_id,
                                             !.state = state,
                                             !.ok = out.ok]
    /\ UNCHANGED <<tbl_locked_levels, tbl_analysis_notes, serial>>
    /\ StoreFrame

SaveAnalysisNote ==
    /\ db_table = "analysis_notes"
    /\ db_ops < MaxOps
    /\ db_ops' = db_ops + 1
    /\ \E symbol_ \in Symbols, note_type \in RowNoteTypes,
          full_response \in NotePayloads, dbOk \in BOOLEAN :
          LET out == analysis_notes_upsert(tbl_analysis_notes, serial.analysis_notes,
                                           db_ops', symbol_, note_type,
                                           full_response, dbOk)
          IN  /\ tbl_analysis_notes' = out.rows
              /\ serial' = [serial EXCEPT !.analysis_notes = out.seq]
              /\ last_call' = [NoCall EXCEPT !.fn = "save_analysis_note",
                                             !.symbol = symbol_,
                                             !.note_type = note_type,
                                             !.payload = full_response,
                                             !.ok = out.ok]
    /\ UNCHANGED <<tbl_locked_levels, tbl_active_setups>>
    /\ StoreFrame

ClearAnalysisNotes ==
    /\ db_table = "analysis_notes"
    /\ db_ops < MaxOps
    /\ db_ops' = db_ops + 1
    /\ \E symbol_ \in Symbols, note_types \in ClearLists, dbOk \in BOOLEAN :
          LET out == analysis_notes_delete(tbl_analysis_notes, symbol_, note_types,
                                           dbOk)
          IN  /\ tbl_analysis_notes' = out.rows
              /\ last_call' = [NoCall EXCEPT !.fn = "clear_analysis_notes",
                                             !.symbol = symbol_,
                                             !.note_types = note_types,
                                             !.ok = out.ok]
    /\ UNCHANGED <<tbl_locked_levels, tbl_active_setups, serial>>
    /\ StoreFrame

NextStore ==
    \/ SaveLockedLevels
    \/ SaveSetupState
    \/ SaveAnalysisNote
    \/ ClearAnalysisNotes

SpecStore == InitStore /\ [][NextStore]_vars

(***************************************************************************)
(* analyze_ohlc_data on its own: the body run on up to MaxFrames series    *)
(* drawn from SeriesPool, with and without a current price and a level.    *)
(***************************************************************************)
InitAnalyze ==
    /\ \E K \in SUBSET AnalyzeLabels :
          /\ Cardinality(K) <= MaxFrames
          /\ \E f \in [K -> SeriesPool] : ohlc_data = f
    /\ ohlc_price \in {NoPrice, 125000}
    /\ ohlc_levels \in {<<>>, <<[id |-> 1, price |-> 125050]>>}
    /\ apc = "call"
    /\ analysis = NoAnalysis
    /\ IdleParse
    /\ IdleCharts
    /\ IdleOhlc
    /\ IdleLevels
    /\ IdleDb
    /\ IdleRace
    /\ IdleWorkflow

AnalyzeOhlcData ==
    /\ apc = "call"
    /\ analysis' = analyze_ohlc_body(ohlc_data, ohlc_price, ohlc_levels)
    /\ apc' = "done"
    /\ UNCHANGED <<ohlc_data, ohlc_price, ohlc_levels, parseVars, chartVars,
                   ohlcVars, levelVars, dbVars, raceVars, wfVars>>

NextAnalyze == AnalyzeOhlcData

SpecAnalyze == InitAnalyze /\ [][NextAnalyze]_vars

(***************************************************************************)
(* The cache refresh under overlap: MaxPollers intraday invocations run    *)
(* _get_market_data_cached for Symbol, each statement of each a step.      *)
(***************************************************************************)
\* the row an earlier refresh at minute 0 left
MarketRow0 ==
    [id |-> 1, symbol |-> Symbol, note_type |-> "market_data_note",
     full_response |-> get_market_data(0, TRUE).d, created_at |-> 0]

InitRace ==
    /\ race_now \in {0, CacheMinutes}
    /\ poller = [p \in 1..MaxPollers |-> [IdlePoller EXCEPT !.pc = "read"]]
    /\ race_saves = <<>>
    /\ db_table = "analysis_notes"
    /\ \/ /\ tbl_analysis_notes = {}
          /\ serial = [locked_levels |-> 1, analysis_notes |-> 1]
       \/ /\ tbl_analysis_notes = {MarketRow0}
          /\ serial = [locked_levels |-> 1, analysis_notes |-> 2]
    /\ tbl_locked_levels = {}
    /\ tbl_active_setups = {}
    /\ db_ops = 0
    /\ last_call = NoCall
    /\ IdleParse
    /\ IdleCharts
    /\ IdleOhlc
    /\ IdleLevels
    /\ IdleAnalyze
    /\ IdleWorkflow

RaceFrame ==
    UNCHANGED <<db_table, tbl_locked_levels, tbl_active_setups, db_ops, last_call,
                parseVars, chartVars, ohlcVars, levelVars, analyzeVars, wfVars>>

\* time passes while the pollers run
RaceTick ==
    /\ \E t \in ClockValues : t > race_now /\ race_now' = t
    /\ UNCHANGED <<poller, race_saves, tbl_analysis_notes, serial>>
    /\ RaceFrame

\* lines 36-54: a poller reads the note and decides on its age
RaceRead ==
    /\ \E p \in DOMAIN poller, dbOk \in BOOLEAN :
          LET note == analysis_notes_select(tbl_analysis_notes, Symbol,
                                            "market_data_note", dbOk)
          IN  /\ poller[p].pc = "read"
              /\ poller' = [poller EXCEPT ![p] =
                    IF CacheDecision(note, race_now) = "use"
                    THEN [pc |-> "done", cached |-> note, data |-> PyNone,
                          out |-> Returned(note)]
                    ELSE [pc |-> "fetch", cached |-> note, data |-> PyNone,
                          out |-> Pending]]
    /\ UNCHANGED <<race_now, race_saves, tbl_analysis_notes, serial>>
    /\ RaceFrame

\* line 56: data = get_market_data(symbol)
RaceFetch ==
    /\ \E p \in DOMAIN poller, providersOk \in BOOLEAN :
          /\ poller[p].pc = "fetch"
          /\ poller' = [poller EXCEPT ![p].pc = "save",
                                      ![p].data = get_market_data(race_now, providersOk)]
    /\ UNCHANGED <<race_now, race_saves, tbl_analysis_notes, serial>>
    /\ RaceFrame

\* lines 57-59: save_analysis_note, one INSERT ... ON CONFLICT statement, and
\* the return of the fetched mapping
RaceSave ==
    /\ \E p \in DOMAIN poller, dbOk \in BOOLEAN :
          LET out == analysis_notes_upsert(tbl_analysis_notes, serial.analysis_notes,
                                           race_now, Symbol, "market_data_note",
                                           poller[p].data, dbOk)
          IN  /\ poller[p].pc = "save"
              /\ tbl_analysis_notes' = out.rows
              /\ serial' = [serial EXCEPT !.analysis_notes = out.seq]
              /\ race_saves' = Append(race_saves,
                                      [poller |-> p, payload |-> poller[p].data,
                                       t |-> race_now, ok |-> out.ok])
              /\ poller' = [poller EXCEPT ![p].pc = "done",
                                          ![p].out = Returned(poller[p].data)]
    /\ UNCHANGED race_now
    /\ RaceFrame

NextRace == RaceTick \/ RaceRead \/ RaceFetch \/ RaceSave

SpecRace == InitRace /\ [][NextRace]_vars

(***************************************************************************)
(* Properties                                                              *)
(***************************************************************************)
ValidActions == {"WAIT", "WATCH", "ENTER", "MANAGE", "EXIT", "STAND_DOWN",
                 "HOTZONE", "ERROR"}

\* the variable the as_completed loop assigns for a branch
BranchVar(b) ==
    CASE b = "ohlc"   -> processed_ohlc
      [] b = "charts" -> chart_observations
      [] b = "market" -> market_context

\* the invocation has left the workflow function
Left == pc \in {"respond", "done"}

\* C1: a branch of the fan-out that raised leaves its degraded result ({} for
\* pattern detection and market context, {"error": message} for chart
\* observation) in its variable, a branch that returned leaves its result
\* there, and the invocation goes on to assemble the context and make the
\* decision call: it never leaves the workflow without them.
C1_BranchFailureIsolated ==
    /\ \A b \in collected :
          IF fut[b].raised # ""
          THEN BranchVar(b) = IF b = "charts" THEN PyDict("error" :> fut[b].raised)
                              ELSE PyDict(EmptyDict)
          ELSE BranchVar(b) = IF b = "charts"
                              THEN fut[b].value.d["chart_analysis"]
                              ELSE fut[b].value
    /\ Left => /\ collected = Branches
               /\ full_context # <<>>
               /\ gpt_calls = 1

\* C1 witness: chart observation raised, the market context was fetched, and
\* the invocation ended after its decision call with both results in place
C1_Witness ==
    /\ pc = "done"
    /\ fut["charts"].raised = "ValueError"
    /\ fut["ohlc"].raised = "TypeError"
    /\ fut["market"].raised = ""
    /\ chart_observations = PyDict("error" :> "ValueError")
    /\ market_context = fut["market"].value
    /\ market_context # PyDict(EmptyDict)
    /\ gpt_calls = 1

\* C2: when the try block of Step 3 caught an exception (a failing decision
\* call among them), the workflow returns a Decision with action ERROR, an
\* error message and next_run_at_utc one minute after now.
C2_ErrorDecisionOnFailure ==
    (pc = "done" /\ decision_exc # "") =>
        /\ ret.raised = ""
        /\ Has(ret.value, "error")
        /\ Has(ret.value, "action")
        /\ ret.value.d["action"] = "ERROR"
        /\ Has(ret.value, "next_run_at_utc")
        /\ ret.value.d["next_run_at_utc"] = now + 1

\* C3: no invocation leaves sod_action / intraday_action by an exception:
\* each returns a dict, and the endpoint answers 200 with that dict, never
\* 500.
C3_NeverPropagates ==
    /\ Left => (ret.raised = "" /\ IsDict(ret.value))
    /\ pc = "done" => (http.status = 200 /\ http.body = ret.value)

\* C3 witness: the decision call failed and the endpoint answered 200
C3_Witness ==
    /\ pc = "done"
    /\ decision_exc = "APIError"
    /\ http.status = 200
    /\ Has(http.body, "error")

\* no part of the text is the text of a JSON object
NoObjectIn(s) ==
    \A i \in 1..Len(s) : \A j \in i..Len(s) : ~IsObjectText(SubSeq(s, i, j))

\* C4: for a response text that holds no JSON object, the decision parser of
\* brain.py raises nothing and returns a Decision with action WAIT and a
\* parse-error marker.
C4_FallbackIsWait ==
    (parsed # Pending /\ NoObjectIn(TextOf(parts))) =>
        /\ parsed.raised = ""
        /\ Has(parsed.value, "error")
        /\ Has(parsed.value, "action")
        /\ parsed.value.d["action"] = "WAIT"

\* a text without a fence marker
NoFence(s) == \A i \in 1..Len(s) : s[i] # Fence

\* the response is one JSON object in a closed fence or without a fence,
\* with fence-free text around it that holds no JSON object of its own
OneWrappedObject ==
    /\ parts.core.obj # <<>>
    /\ parts.core.wrap \in {"none"} \cup ClosedFences
    /\ NoFence(parts.pre) /\ NoObjectIn(parts.pre)
    /\ NoFence(parts.post) /\ NoObjectIn(parts.post)

\* C5 as stated: one well-formed JSON object wrapped in a json fence, a bare
\* fence or surrounding prose is parsed to exactly that object.
C5_WrappedObjectParsed ==
    (parsed # Pending /\ OneWrappedObject) => parsed = JsonLoads(parts.core.obj)

\* where the extraction of brain._parse_gpt_response finds the object, when
\* the object's own text holds no fence marker: in a json fence always; in a
\* bare fence unless the word json directly follows the closing fence;
\* without a fence when no opening brace precedes the object and no closing
\* brace follows it
Extractable ==
    /\ NoFence(parts.core.obj)
    /\ CASE parts.core.wrap \in {"json", "json_nl"} -> TRUE
         [] parts.core.wrap \in {"bare", "bare_nl"} ->
               (parts.post = <<>> \/ Head(parts.post) # JsonTag)
         [] OTHER ->
               /\ \A i \in 1..Len(parts.pre) : parts.pre[i] # LBrace
               /\ \A i \in 1..Len(parts.post) : parts.post[i] # RBrace

\* C5 amended: one well-formed JSON object whose text holds no fence marker,
\* in a closed json fence, in a closed bare fence whose closing marker is not directly followed by the
\* word json, or in fence-free prose with no opening brace before the object
\* and no closing brace after it, is parsed to exactly that object; neither
\* fence markers nor prose reach the result.
C5_ExtractableObjectParsed ==
    (parsed # Pending /\ OneWrappedObject /\ Extractable) =>
        parsed = JsonLoads(parts.core.obj)

\* C5 witness: the response Sure! (json fence) {"action":"ENTER"} (fence) was
\* parsed to the object with action ENTER
C5_Witness ==
    /\ parts = [pre |-> <<Prose>>,
                core |-> [wrap |-> "json_nl", obj |-> <<LBrace, "a:ENTER", RBrace>>],
                post |-> <<>>]
    /\ parsed = Returned(PyDict("action" :> "ENTER"))

\* the workflow returned what the decision step produced
DecisionReturned == pc = "done" /\ decision_exc = "" /\ ret.raised = ""

\* C6: every Decision the decision step returns has an action of the
\* enumerated set; an absent or unrecognized action has become WAIT.
C6_ActionEnumerated ==
    DecisionReturned =>
        (Has(ret.value, "action") /\ ret.value.d["action"] \in ValidActions)

\* C7: in a returned Decision order_intent is non-null only if action is
\* ENTER, and then it carries all five fields.
C7_OrderIntentOnlyOnEnter ==
    (DecisionReturned /\ Has(ret.value, "order_intent")
                      /\ ~ret.value.d["order_intent"].isNull) =>
        /\ Has(ret.value, "action")
        /\ ret.value.d["action"] = "ENTER"
        /\ ret.value.d["order_intent"].fields = OrderFields

\* C8: a Decision is returned with action ENTER only when the number of open
\* positions is strictly below max_trades_per_day.
C8_EnterBelowTradeLimit ==
    (DecisionReturned /\ Has(ret.value, "action")
                      /\ ret.value.d["action"] = "ENTER") =>
        db_positions < max_trades_per_day

\* _get_market_data_cached has read a note whose creation time it can read
ReadableNote ==
    /\ kind = "intraday"
    /\ mpc # "start"
    /\ IsDict(cached)
    /\ cached.d["_db_created_at"] \notin {NullTime, BadTime}

\* the writes of market_data_note made so far by this invocation
MarketWrites == SelectSeq(writes, LAMBDA w : w.note_type = "market_data_note")

\* C9: a market_data_note read with a readable creation time is reused,
\* without a fetch and without a write, exactly when its age at the read is
\* strictly below 4 hours; from 4 hours on the function fetches and saves.
C9_CacheReusedBelowFourHours ==
    ReadableNote =>
        IF read_at - cached.d["_db_created_at"] < 4 * 60
        THEN /\ mpc = "done"
             /\ fut["market"] = Returned(cached)
             /\ fetch_calls = 0
             /\ MarketWrites = <<>>
        ELSE \/ mpc = "refresh" /\ fetch_calls = 0 /\ fut["market"] = Pending
             \/ /\ mpc = "done"
                /\ fetch_calls = 1
                /\ Len(MarketWrites) = 1
                /\ MarketWrites[1].op = "save"
                /\ fut["market"] = Returned(MarketWrites[1].payload)

\* C9 witness: a note created 3h59m before the read was returned from the
\* store without a fetch
C9_Witness ==
    /\ ReadableNote
    /\ read_at - cached.d["_db_created_at"] = 239
    /\ mpc = "done"
    /\ fetch_calls = 0
    /\ fut["market"] = Returned(cached)

\* _get_market_data_cached has finished on a note that was absent, could not
\* be read, or has no readable creation time
NoUsableNote ==
    /\ kind = "intraday"
    /\ mpc = "done"
    /\ \/ ~IsDict(cached)
       \/ cached.d["_db_created_at"] \in {NullTime, BadTime}

\* C10: when the note is absent, cannot be read, or has no readable creation
\* time, _get_market_data_cached fetches once, saves the fetched mapping
\* under market_data_note and returns it; when the store takes the save, the
\* row under that key holds the fetched mapping in place of whatever was
\* there.
C10_RefreshWhenNoUsableNote ==
    NoUsableNote =>
        /\ fetch_calls = 1
        /\ \E providersOk \in BOOLEAN :
              fut["market"] = Returned(get_market_data(read_at, providersOk))
        /\ Len(MarketWrites) = 1
        /\ MarketWrites[1].op = "save"
        /\ MarketWrites[1].payload = fut["market"].value
        /\ MarketWrites[1].ok =>
              notes["market_data_note"] = Row(fut["market"].value.d, read_at)

\* C10 witness: a note without a creation time was in the store, and the
\* refresh replaced it by the fetched mapping
C10_Witness ==
    /\ NoUsableNote
    /\ IsDict(cached)
    /\ cached.d["_db_created_at"] = NullTime
    /\ fetch_calls = 1
    /\ notes["market_data_note"] = Row(fut["market"].value.d, read_at)

\* the writes of the decision step made so far by this invocation
DecisionWrites == SelectSeq(writes, LAMBDA w : w.note_type # "market_data_note")

\* C11: a SOD invocation whose market branch has ended called get_market_data
\* once, saved what it fetched under market_data_note and returns it, and
\* never read the stored note: a note younger than 4 hours is not reused.
C11_SodAlwaysRefetches ==
    (kind = "sod" /\ fut["market"] # Pending) =>
        /\ fetch_calls = 1
        /\ cached = PyNone
        /\ \E providersOk \in BOOLEAN, t \in ClockValues :
              /\ t <= now
              /\ fut["market"] = Returned(get_market_data(t, providersOk))
        /\ Len(MarketWrites) = 1
        /\ MarketWrites[1].op = "save"
        /\ MarketWrites[1].payload = fut["market"].value
        /\ MarketWrites[1].ok =>
              notes["market_data_note"] =
                  Row(fut["market"].value.d, fut["market"].value.d["timestamp"])

\* C11 witness: the SOD workflow found a market_data_note of age 0 in the
\* store (the one Step 0 of an intraday run would reuse) and fetched anyway
C11_Witness ==
    /\ kind = "sod"
    /\ pc = "done"
    /\ now = 0
    /\ notes["sod_note"].present
    /\ fetch_calls = 1
    /\ MarketWrites[1].ok
    /\ fut["market"].value.d["risk_assets"] = "quotes"
    /\ notes["market_data_note"] = Row(fut["market"].value.d, 0)

\* the minute at which the invocation runs (the clock stands still during
\* an invocation): the timestamp of the SOD fetch, the minute of the read of
\* _get_market_data_cached
RunMinute ==
    IF kind = "sod" THEN MarketWrites[1].payload.d["timestamp"] ELSE read_at

\* the decision step of the running invocation has its decision
HasDecision == pc \in {"return", "respond", "done"} /\ result # PyNone

\* C12: a SOD invocation that has its decision has saved it as sod_note and
\* then cleared last_run_note, in that order and nothing else, before it
\* returns; when both operations succeeded the store holds the decision as
\* sod_note and no last_run_note.
C12_SodNoteThenClear ==
    (kind = "sod" /\ HasDecision) =>
        /\ Len(DecisionWrites) = 2
        /\ DecisionWrites[1].op = "save"
        /\ DecisionWrites[1].note_type = "sod_note"
        /\ DecisionWrites[1].payload = result
        /\ DecisionWrites[2].op = "clear"
        /\ DecisionWrites[2].note_type = "last_run_note"
        /\ (DecisionWrites[1].ok /\ DecisionWrites[2].ok) =>
              /\ notes["sod_note"] = Row(result.d, RunMinute)
              /\ ~notes["last_run_note"].present

\* C12 witness: a SOD run that read a last_run_note at Step 0 ended with its
\* ENTER decision stored as sod_note and the last_run_note gone
C12_Witness ==
    /\ kind = "sod"
    /\ pc = "done"
    /\ previous_run # PyNone
    /\ Has(result, "action")
    /\ result.d["action"] = "ENTER"
    /\ notes["sod_note"] = Row(result.d, now)
    /\ ~notes["last_run_note"].present

\* C13: an intraday invocation that has its decision has saved it as
\* last_run_note, the only write of its decision step, before it returns, and
\* a successful save leaves the decision in place of the previous note; no
\* step of an intraday invocation changes the row of sod_note.
C13_IntradaySavesLastRun ==
    /\ []((kind = "intraday" /\ HasDecision) =>
            /\ Len(DecisionWrites) = 1
            /\ DecisionWrites[1].op = "save"
            /\ DecisionWrites[1].note_type = "last_run_note"
            /\ DecisionWrites[1].payload = result
            /\ DecisionWrites[1].ok =>
                  notes["last_run_note"] = Row(result.d, RunMinute))
    /\ [][(kind = "intraday" /\ kind' = "intraday") =>
            notes'["sod_note"] = notes["sod_note"]]_vars

\* C13 witness: an intraday run that read a last_run_note at Step 0 replaced
\* it by its own decision, with the sod_note still in the store
C13_Witness ==
    /\ kind = "intraday"
    /\ pc = "done"
    /\ previous_run # PyNone
    /\ Has(result, "action")
    /\ result.d["action"] = "ENTER"
    /\ previous_run.d["action"] = "WATCH"
    /\ notes["last_run_note"] = Row(result.d, now)
    /\ notes["sod_note"] = Row(StoredDecision, 0)

\* C14: whatever the outcome of the save and of the clear, an invocation
\* whose decision is a dict returns that dict: every field of the decision
\* with its value, and the metadata entry as the only addition.
C14_PersistenceFailureTolerated ==
    (Left /\ IsDict(result)) =>
        /\ ret.raised = ""
        /\ decision_exc = ""
        /\ \A k \in DOMAIN result.d : Has(ret.value, k) /\ ret.value.d[k] = result.d[k]
        /\ DOMAIN ret.value.d \ DOMAIN result.d =
              {IF kind = "sod" THEN "sod_metadata" ELSE "intraday_metadata"}

\* C14 witness: the save of sod_note and the clear of last_run_note both
\* failed and the endpoint answered with the ENTER decision
C14_Witness ==
    /\ kind = "sod"
    /\ pc = "done"
    /\ Len(DecisionWrites) = 2
    /\ ~DecisionWrites[1].ok
    /\ ~DecisionWrites[2].ok
    /\ http.status = 200
    /\ Has(http.body, "action")
    /\ http.body.d["action"] = "ENTER"
    /\ ~Has(http.body, "error")

\* the images the fetch loop of the call kept
ChartImages == fetch_chart_images(req_timeframes, req_images)

\* C15: a call of analyze_charts_with_gpt_vision whose fetch failed for every
\* requested timeframe raises ValueError: it returns nothing, an empty mapping
\* included, and makes no request to the vision model.
C15_NoImagesRaises ==
    (chart_result # Pending /\ ChartImages = <<>>) =>
        /\ chart_result.raised = "ValueError"
        /\ vision_requests = <<>>
        /\ response = Pending

\* C15 witness: with a client configured, two timeframes were requested, one
\* fetch returned None and the other an empty body, and the call raised
C15_Witness ==
    /\ client
    /\ req_timeframes = <<"H1", "M15">>
    /\ req_images["H1"] = "None"
    /\ req_images["M15"] = ""
    /\ chart_result = Raised("ValueError")
    /\ vision_requests = <<>>

\* the timeframes of a list
TfSet(l) == {l[i] : i \in 1..Len(l)}

\* C16: when the fetch succeeded for a non-empty part S of the requested
\* timeframes and failed for the rest, the one request to the vision model
\* carries exactly S, and a returned chart_analysis has no timeframe outside
\* S among its keys.
C16_OnlyFetchedTimeframes ==
    (chart_result # Pending /\ client /\ ChartImages # <<>>
        /\ Len(ChartImages) < Len(req_timeframes)) =>
        /\ vision_requests = <<ChartImages>>
        /\ (chart_result.raised = "" /\ IsDict(chart_result.value.d["chart_analysis"])) =>
              (DOMAIN chart_result.value.d["chart_analysis"].d) \cap ChartTimeframes
                  \subseteq TfSet(ChartImages)

\* C17 as stated: for a vision response that cannot be decoded the call
\* returns, under chart_analysis, the raw response text for every requested
\* timeframe, and the parse-error marker.
C17_FallbackCoversRequested ==
    (chart_result # Pending /\ response.raised = ""
        /\ DecodeJsonStr(ExtractJsonStr(response.value)).raised = "JSONDecodeError") =>
        /\ chart_result.raised = ""
        /\ Has(chart_result.value.d["chart_analysis"], "_parse_error")
        /\ \A tf \in TfSet(req_timeframes) :
              /\ Has(chart_result.value.d["chart_analysis"], tf)
              /\ chart_result.value.d["chart_analysis"].d[tf] = response.value

\* C17 amended: for a vision response that cannot be decoded the chart
\* response parser raises nothing and the call returns, under chart_analysis,
\* the raw response text for every timeframe whose chart was fetched (those
\* sent to the vision model) and for no other timeframe, and the parse-error
\* marker.
C17_FallbackCoversFetched ==
    (chart_result # Pending /\ response.raised = ""
        /\ DecodeJsonStr(ExtractJsonStr(response.value)).raised = "JSONDecodeError") =>
        /\ chart_result.raised = ""
        /\ Has(chart_result.value.d["chart_analysis"], "_parse_error")
        /\ DOMAIN chart_result.value.d["chart_analysis"].d =
              TfSet(ChartImages) \cup {"_parse_error"}
        /\ \A tf \in TfSet(ChartImages) :
              chart_result.value.d["chart_analysis"].d[tf] = response.value

\* C17 witness: H1 and M15 were requested, only the H1 chart was fetched, the
\* vision model answered prose, and the raw text is returned under H1
C17_Witness ==
    /\ req_timeframes = <<"H1", "M15">>
    /\ ChartImages = <<"H1">>
    /\ response = Returned(<<Prose, Space, Prose>>)
    /\ chart_result.raised = ""
    /\ DOMAIN chart_result.value.d["chart_analysis"].d = {"H1", "_parse_error"}
    /\ chart_result.value.d["chart_analysis"].d["H1"] = <<Prose, Space, Prose>>

\* the entries of a list of signals
Entries(signals) == {signals[i] : i \in 1..Len(signals)}

\* the windows of three consecutive candles, by the place of the middle one
Windows == IF Len(candles) < 3 THEN {} ELSE 2..(Len(candles) - 1)

\* C18: once _detect_fvgs has run, its result holds for every window (prev,
\* curr, next) a bullish FVG with bottom prev.high and top next.low, tagged
\* curr.time, iff prev.high < next.low, a bearish FVG with bottom next.high
\* and top prev.low iff prev.low > next.high, and nothing else: a window
\* whose prices only touch gives no FVG, a series under 3 candles gives none.
C18_FvgIffStrictGap ==
    opc # "fvg" =>
        /\ \A i \in Windows :
              /\ candles[i - 1].high < candles[i + 1].low <=>
                    \E f \in Entries(fvgs) :
                        /\ f.type = "bullish"
                        /\ f.timestamp = candles[i].time
                        /\ f.bottom = candles[i - 1].high
                        /\ f.top = candles[i + 1].low
              /\ candles[i - 1].low > candles[i + 1].high <=>
                    \E f \in Entries(fvgs) :
                        /\ f.type = "bearish"
                        /\ f.timestamp = candles[i].time
                        /\ f.bottom = candles[i + 1].high
                        /\ f.top = candles[i - 1].low
        /\ \A f \in Entries(fvgs) :
              \E i \in Windows :
                  /\ f.timestamp = candles[i].time
                  /\ \/ f.type = "bullish" /\ candles[i - 1].high < candles[i + 1].low
                     \/ f.type = "bearish" /\ candles[i - 1].low > candles[i + 1].high
        /\ Len(fvgs) = Cardinality(Entries(fvgs))

\* C18 witness: three ascending candles with a gap between the first high
\* and the third low gave the one bullish zone between them
C18_Witness ==
    /\ opc = "done"
    /\ Len(candles) = 3
    /\ candles[1].high = 1
    /\ candles[2].low = 2
    /\ candles[3].low = 3
    /\ fvgs = << [type |-> "bullish", timeframe |-> "H1", top |-> 3, bottom |-> 1,
                  timestamp |-> 2, filled |-> FALSE] >>

\* the swings of type ty before place k of the swing list
EarlierOfType(swings, k, ty) == {j \in 1..(k - 1) : swings[j].type = ty}

\* the nearest earlier swing of type ty
NearestEarlier(swings, k, ty) ==
    swings[CHOOSE j \in EarlierOfType(swings, k, ty) :
              \A m \in EarlierOfType(swings, k, ty) : m <= j]

\* C19: once _detect_bos has run, a bullish BOS is reported at a swing of
\* type high exactly when its price exceeds that of the nearest earlier
\* swing of type high, and a bearish BOS at a swing of type low exactly when
\* its price is below that of the nearest earlier swing of type low,
\* whatever swings of the other type lie between.
C19_BosAgainstSameType ==
    opc \in {"imbalance", "done"} =>
        LET swings == _find_swings(candles)
        IN  \A k \in 1..Len(swings) :
              /\ swings[k].type = "high" =>
                    ((\E b \in Entries(bos_signals) :
                         b.type = "bullish" /\ b.timestamp = swings[k].time)
                     <=> /\ EarlierOfType(swings, k, "high") # {}
                         /\ swings[k].price >
                                NearestEarlier(swings, k, "high").price)
              /\ swings[k].type = "low" =>
                    ((\E b \in Entries(bos_signals) :
                         b.type = "bearish" /\ b.timestamp = swings[k].time)
                     <=> /\ EarlierOfType(swings, k, "low") # {}
                         /\ swings[k].price <
                                NearestEarlier(swings, k, "low").price)

\* the candle's body and range
Body(c) == Abs(c.close - c.open)
RangeOf(c) == c.high - c.low

\* C20: once _detect_imbalances has run, a candle is in its result iff its
\* range is not zero and its body is strictly more than 0.70 of its range,
\* tagged bullish when close > open and bearish otherwise; a candle of
\* range zero is skipped and a ratio of exactly 0.70 is not flagged.
C20_ImbalanceStrictlyAboveSeventy ==
    opc = "done" =>
        /\ \A i \in 1..Len(candles) :
              (\E m \in Entries(imbalances) : m.timestamp = candles[i].time)
                  <=> /\ RangeOf(candles[i]) # 0
                      /\ 100 * Body(candles[i]) > 70 * RangeOf(candles[i])
        /\ \A m \in Entries(imbalances) :
              \E i \in 1..Len(candles) :
                  /\ m.timestamp = candles[i].time
                  /\ m.type = IF candles[i].close > candles[i].open
                              THEN "bullish" ELSE "bearish"
        /\ Len(imbalances) = Cardinality(Entries(imbalances))

\* C20 witness: of two candles of range 10, the one with body 7 was left out
\* and the one with body 8, closing below its open, was flagged bearish
C20_Witness ==
    /\ opc = "done"
    /\ Len(candles) = 2
    /\ RangeOf(candles[1]) = 10 /\ Body(candles[1]) = 7
    /\ RangeOf(candles[2]) = 10 /\ Body(candles[2]) = 8
    /\ candles[2].close < candles[2].open
    /\ Len(imbalances) = 1
    /\ imbalances[1].timestamp = 2
    /\ imbalances[1].type = "bearish"

\* points in one pip
PointsPerPip == PriceScale \div PipFactor

\* the interactions reported for the level of id i
ReportsOf(i) ==
    { k \in 1..Len(level_interactions) : level_interactions[k].level_id = i }

(***************************************************************************)
(* C21: for a current price and every locked level with a price, the level *)
(* is reported once as near when it is less than 10 pips away, once as     *)
(* approaching from 10 pips to less than 20, and not at all from 20 pips   *)
(* on; nothing else is reported.                                           *)
(***************************************************************************)
C21_LevelInteractionBands ==
    lpc = "done" =>
        /\ \A i \in 1..Len(locked_levels) :
              LET p == locked_levels[i].price
                  d == Abs(current_price - p)
              IN  (p # NoPrice /\ p # 0) =>
                    /\ d < 10 * PointsPerPip =>
                          /\ Cardinality(ReportsOf(i)) = 1
                          /\ \A k \in ReportsOf(i) :
                                level_interactions[k].status = "near"
                    /\ (d >= 10 * PointsPerPip /\ d < 20 * PointsPerPip) =>
                          /\ Cardinality(ReportsOf(i)) = 1
                          /\ \A k \in ReportsOf(i) :
                                level_interactions[k].status = "approaching"
                    /\ d >= 20 * PointsPerPip => ReportsOf(i) = {}
        /\ \A k \in 1..Len(level_interactions) :
              level_interactions[k].level_id \in 1..Len(locked_levels)

\* a level exactly 20 pips away next to one 19.9 pips away: only the second
\* is reported
C21_Witness ==
    /\ lpc = "done"
    /\ current_price = 125000
    /\ Len(locked_levels) = 2
    /\ locked_levels[1].price = 125200
    /\ locked_levels[2].price = 125199
    /\ Len(level_interactions) = 1
    /\ level_interactions[1].level_id = 2
    /\ level_interactions[1].status = "approaching"

\* the stored levels with the identity key of a level of the last call
LevelKeyRows(level) ==
    { r \in tbl_locked_levels :
        /\ r.symbol = last_call.symbol
        /\ r.session = last_call.session
        /\ r.price = level.price
        /\ r.level_type = IF level.type = Absent THEN "level" ELSE level.type }

(***************************************************************************)
(* C22: saving a level whose identity key (symbol, session, price, type)   *)
(* is already stored, the session being given or not, leaves exactly one   *)
(* stored level with that key, carrying the new zone bounds, timeframe and *)
(* metadata and no invalidation timestamp; saving the same level again     *)
(* leaves the table as it is.                                              *)
(***************************************************************************)
C22_LevelUpsertIdempotent ==
    (last_call.fn = "save_locked_levels" /\ last_call.ok) =>
        /\ \A i \in 1..Len(last_call.levels) :
              LET level == last_call.levels[i]
              IN  /\ Cardinality(LevelKeyRows(level)) = 1
                  /\ \A r \in LevelKeyRows(level) :
                        /\ r.zone_top = level.zone_top
                        /\ r.zone_bottom = level.zone_bottom
                        /\ r.timeframe = level.timeframe
                        /\ r.metadata = level.metadata
                        /\ r.invalidated_at = NullTime
        /\ save_locked_levels(tbl_locked_levels, serial.locked_levels, db_ops + 1,
                              last_call.symbol, last_call.levels,
                              last_call.session, TRUE).rows = tbl_locked_levels

(***************************************************************************)
(* C23: after any sequence of save_setup_state calls, completed_at of a    *)
(* setup is set exactly when its stored phase is STAND_DOWN.               *)
(***************************************************************************)
C23_CompletedIffStandDown ==
    \A r \in tbl_active_setups :
        (r.completed_at # NullTime) <=> (r.phase = "STAND_DOWN")

NotesUnder(rows, symbol_, note_type) ==
    { r \in rows : r.symbol = symbol_ /\ r.note_type = note_type }

NotesElsewhere(rows, symbol_, note_type) ==
    { r \in rows : ~(r.symbol = symbol_ /\ r.note_type = note_type) }

(***************************************************************************)
(* C24: the table holds at most one note per (symbol, note_type); a save   *)
(* that succeeds leaves one note under its key, with the payload and the   *)
(* creation time of the call, and leaves the notes under every other key   *)
(* as they were.                                                           *)
(***************************************************************************)
C24_OneNotePerKey ==
    /\ [](\A r1 \in tbl_analysis_notes : \A r2 \in tbl_analysis_notes :
             (r1.symbol = r2.symbol /\ r1.note_type = r2.note_type) => r1 = r2)
    /\ [][ (db_ops' # db_ops /\ last_call'.fn = "save_analysis_note" /\ last_call'.ok) =>
             /\ Cardinality(NotesUnder(tbl_analysis_notes', last_call'.symbol,
                                       last_call'.note_type)) = 1
             /\ \A r \in NotesUnder(tbl_analysis_notes', last_call'.symbol,
                                    last_call'.note_type) :
                   /\ r.full_response = last_call'.payload.d
                   /\ r.created_at = db_ops'
             /\ NotesElsewhere(tbl_analysis_notes', last_call'.symbol,
                               last_call'.note_type)
                = NotesElsewhere(tbl_analysis_notes, last_call'.symbol,
                                 last_call'.note_type) ]_vars

\* a third call saves again under the key of the first, with another payload,
\* while the note of the second call stays
C24_Witness ==
    /\ last_call.fn = "save_analysis_note"
    /\ last_call.ok
    /\ db_ops = 3
    /\ Cardinality(tbl_analysis_notes) = 2
    /\ \E r \in tbl_analysis_notes :
          /\ r.id = 1
          /\ r.created_at = 3
          /\ r.full_response = get_market_data(0, TRUE).d
    /\ \E r \in tbl_analysis_notes : r.id = 2 /\ r.created_at = 2

\* the place of a section in the order of the bundle
SectionRank(name) ==
    CASE name = "header"       -> 1
      [] name = "system"       -> 2
      [] name = "previous_run" -> 3
      [] name = "last_run"     -> 3
      [] name = "sod_note"     -> 4
      [] name = "db_positions" -> 5
      [] name = "ea_positions" -> 6
      [] name = "ohlc"         -> 7
      [] name = "charts"       -> 8
      [] name = "market"       -> 9

\* C25: the sections of the context bundle come in one fixed order: header,
\* system note, previous-run note, SOD note, database positions, EA
\* positions, pattern-detector output, chart observations, market context;
\* any two sections present appear in this relative order, in both workflows.
C25_SectionsInFixedOrder ==
    \A i \in 1..Len(full_context) : \A j \in 1..Len(full_context) :
        i < j => SectionRank(full_context[i].name) < SectionRank(full_context[j].name)

\* C26: a section whose data is empty or missing does not appear in the
\* context bundle: no section header is followed by an empty payload.
C26_NoEmptySections ==
    \A i \in 1..Len(full_context) : ~full_context[i].empty

\* C27: an intraday invocation runs chart observation over exactly the set
\* of timeframes of the caller's ohlc_data, all of them, and over H1 and M15
\* when the caller supplied none.
C27_ChartsOverSuppliedTimeframes ==
    (kind = "intraday" /\ pc # "idle") =>
        /\ TfSet(timeframes) = IF ohlc_keys = <<>> THEN {"H1", "M15"}
                               ELSE TfSet(ohlc_keys)
        /\ (fut["charts"] # Pending /\ fut["charts"].raised = "") =>
              fut["charts"].value.d["_metadata"].timeframes_requested = timeframes

\* the timeframes the claim infers from an action
InferredTimeframes(action) ==
    CASE action = "WAIT"                  -> <<"H1", "M15">>
      [] action = "WATCH"                 -> <<"M15", "M5">>
      [] action \in {"ENTER", "HOTZONE"}  -> <<"M5", "M1">>
      [] action \in {"MANAGE", "IN_TRADE"} -> <<"M1", "M5">>
      [] OTHER                            -> <<"H1", "M15">>

\* C28: the Decision returned to the client carries next_requested_timeframes:
\* the decision's own list when it specifies one, otherwise the list inferred
\* from its action.
C28_NextTimeframesCarried ==
    (pc = "done" /\ http.status = 200 /\ Has(http.body, "action")) =>
        /\ Has(http.body, "next_requested_timeframes")
        /\ http.body.d["next_requested_timeframes"] =
              IF Has(result, "next_requested_timeframes")
              THEN result.d["next_requested_timeframes"]
              ELSE InferredTimeframes(http.body.d["action"])

\* no fan-out branch is still running
BranchesEnded == mpc = "done" /\ \A b \in Branches : fut[b] # Pending

\* C29: in both workflows the context is assembled and the decision call is
\* made only after all three fan-out branches have completed or failed; no
\* branch is still running when the decision call starts or when the
\* workflow returns.
C29_DecisionAfterAllBranches ==
    /\ pc \in {"assemble", "decide", "save", "clear", "return", "respond", "done"}
          => BranchesEnded
    /\ (full_context # <<>> \/ gpt_calls > 0 \/ ret # Pending) => BranchesEnded

\* C29 witness: an intraday invocation is about to make its decision call,
\* its market branch having read the note and then fetched
C29_Witness ==
    /\ pc = "decide"
    /\ kind = "intraday"
    /\ fetch_calls = 1
    /\ collected = Branches
    /\ fut["ohlc"].raised = "TypeError"
    /\ fut["charts"].raised = "ValueError"

\* C30: an invocation calls the reasoning service for the decision at most
\* once; a failed decision call is not made again, no decision is saved, and
\* the workflow returns its error response.
C30_DecisionCallAtMostOnce ==
    /\ gpt_calls <= 1
    /\ decision_exc = "APIError" =>
          /\ gpt_calls = 1
          /\ pc \in {"respond", "done"}
          /\ DecisionWrites = <<>>
          /\ ret.raised = ""
          /\ Has(ret.value, "error")
          /\ \E t \in ClockValues : ret = Returned(ErrorResponse(kind, t))

\* C30 witness: the decision call of a SOD invocation failed and the endpoint
\* answered with the error response
C30_Witness ==
    /\ pc = "done"
    /\ kind = "sod"
    /\ decision_exc = "APIError"
    /\ gpt_calls = 1
    /\ http.status = 200
    /\ Has(http.body, "error")

\* C31: in both workflows the pattern-detection branch completes without
\* error, the bundle it returned (fvgs, bos_signals, imbalances,
\* level_interactions, price_action) is what the loop keeps as processed_ohlc,
\* and the OHLC section of the assembled context is that bundle, not the
\* degraded {}.
C31_OhlcBundleInContext ==
    /\ fut["ohlc"] # Pending => fut["ohlc"].raised = ""
    /\ "ohlc" \in collected =>
          /\ processed_ohlc = fut["ohlc"].value
          /\ processed_ohlc.d # EmptyDict
    /\ full_context # <<>> =>
          \E i \in 1..Len(full_context) :
              full_context[i].name = "ohlc" /\ ~full_context[i].empty

\* the entries of a list of the bundle that carry the label tf
Tagged(entries, tf) == SelectSeq(entries, LAMBDA e : e.timeframe = tf)

\* C32: analyze_ohlc_data runs the FVG, BOS and imbalance detectors on every
\* series present in its input, each on its own: for each label of the input
\* the entries of the bundle that carry the label are what the three
\* detectors find on that label's series, and no entry carries another label.
C32_EveryTimeframeScanned ==
    apc = "done" =>
        /\ \A tf \in DOMAIN ohlc_data :
              /\ Tagged(analysis.fvgs, tf) = _detect_fvgs(ohlc_data[tf], tf)
              /\ Tagged(analysis.bos_signals, tf) = _detect_bos(ohlc_data[tf], tf)
              /\ Tagged(analysis.imbalances, tf) = _detect_imbalances(ohlc_data[tf], tf)
        /\ \A i \in 1..Len(analysis.fvgs) : analysis.fvgs[i].timeframe \in DOMAIN ohlc_data
        /\ \A i \in 1..Len(analysis.bos_signals) :
              analysis.bos_signals[i].timeframe \in DOMAIN ohlc_data
        /\ \A i \in 1..Len(analysis.imbalances) :
              analysis.imbalances[i].timeframe \in DOMAIN ohlc_data

\* the row of market_data_note is the note _get_market_data_cached read
RowAsRead ==
    /\ notes["market_data_note"].present
    /\ notes["market_data_note"].created_at = cached.d["_db_created_at"]
    /\ notes["market_data_note"].full_response =
          [k \in DOMAIN cached.d \ {"_db_created_at"} |-> cached.d[k]]

\* C33: when _get_market_data_cached has read a market_data_note younger
\* than 4 hours it returns that note as read, has called no provider and has
\* written nothing to the store: the row keeps the payload and the creation
\* time it had, so the reuse does not renew the note.
C33_CacheHitTouchesNothing ==
    (ReadableNote /\ read_at - cached.d["_db_created_at"] < CacheMinutes) =>
        /\ mpc = "done"
        /\ fut["market"] = Returned(cached)
        /\ fetch_calls = 0
        /\ MarketWrites = <<>>
        /\ RowAsRead

\* C33 witness: an invocation that ran at minute 239 ended with the note of
\* minute 0 returned and still in the store with that creation time
C33_Witness ==
    /\ pc = "done"
    /\ ReadableNote
    /\ read_at = CacheMinutes - 1
    /\ cached.d["_db_created_at"] = 0
    /\ fut["market"] = Returned(cached)
    /\ notes["market_data_note"].created_at = 0
    /\ writes # <<>>

\* the market branch of the invocation was served from the stored note
ServedFromStore ==
    /\ fetch_calls = 0
    /\ IsDict(cached)
    /\ fut["market"] = Returned(cached)
    /\ market_context = cached

\* C34: the market_data_from_cache entry of intraday_metadata is true exactly
\* when the market context of the decision is the stored market_data_note,
\* returned without a fetch; after a refresh it is false.
C34_FromCacheFlag ==
    (kind = "intraday" /\ Left /\ Has(ret.value, "intraday_metadata")) =>
        /\ ret.value.d["intraday_metadata"].market_data_from_cache = ServedFromStore
        /\ fetch_calls > 0 => ~ret.value.d["intraday_metadata"].market_data_from_cache

\* C34 witness: an invocation at minute 239 was answered with the flag set,
\* its market context being the note of minute 0 as read
C34_Witness ==
    /\ pc = "done"
    /\ kind = "intraday"
    /\ Has(http.body, "intraday_metadata")
    /\ http.body.d["intraday_metadata"].market_data_from_cache
    /\ ServedFromStore
    /\ read_at = CacheMinutes - 1

\* the saves of the pollers that the store took, in order
OkSaves == SelectSeq(race_saves, LAMBDA w : w.ok)

\* C35: however the steps of overlapping invocations interleave, the store
\* holds at most one market_data_note for the symbol, and once a save was
\* taken that note is, whole, what the last such save wrote: its payload and
\* the time of that save, not a second row and not parts of two saves.
C35_LastWriteWins ==
    /\ Cardinality(NotesUnder(tbl_analysis_notes, Symbol, "market_data_note")) <= 1
    /\ OkSaves # <<>> =>
          \E r \in tbl_analysis_notes :
              /\ NotesUnder(tbl_analysis_notes, Symbol, "market_data_note") = {r}
              /\ r.full_response = OkSaves[Len(OkSaves)].payload.d
              /\ r.created_at = OkSaves[Len(OkSaves)].t

\* C35 witness: two pollers found the note stale, both fetched and both
\* saved; the one that fetched first saved last, and the store holds its
\* mapping, the older of the two, as the only note
C35_Witness ==
    /\ Len(race_saves) = 2
    /\ race_saves[1].ok /\ race_saves[2].ok
    /\ race_saves[1].poller # race_saves[2].poller
    /\ race_saves[2].payload.d["timestamp"] < race_saves[1].payload.d["timestamp"]
    /\ \E r \in tbl_analysis_notes :
          /\ tbl_analysis_notes = {r}
          /\ r.full_response = race_saves[2].payload.d

\* a step changes the row of sod_note or of last_run_note
DecisionNotesChange ==
    \/ notes'["sod_note"] # notes["sod_note"]
    \/ notes'["last_run_note"] # notes["last_run_note"]

\* C36: an invocation whose decision call raised has made no write to
\* sod_note and no write or clear of last_run_note, in either workflow: a
\* step changes one of these rows only in an invocation that holds a parsed
\* decision and has caught no exception, an invocation whose call raised
\* never held a decision, and it leaves the workflow with the two rows as
\* they were when it was entered.
C36_NotesKeptOnDecisionFailure ==
    /\ [](decision_exc = "APIError" =>
            /\ result = PyNone
            /\ DecisionWrites = <<>>
            /\ Left)
    /\ [][DecisionNotesChange =>
            /\ runs' = runs
            /\ result # PyNone /\ result' = result
            /\ decision_exc = "" /\ decision_exc' = ""]_vars
    /\ [][(runs' = runs /\ result # PyNone) => result' = result]_vars
    /\ [][(runs' = runs /\ decision_exc = "APIError") =>
            /\ decision_exc' = "APIError"
            /\ ~DecisionNotesChange]_vars

\* C36 witness: a SOD invocation refreshed market_data_note, its decision
\* call raised, and it ended with the store still holding no sod_note and
\* the last_run_note of minute 0
C36_Witness ==
    /\ pc = "done"
    /\ kind = "sod"
    /\ decision_exc = "APIError"
    /\ Len(writes) = 1
    /\ writes[1].ok
    /\ writes[1].note_type = "market_data_note"
    /\ notes["market_data_note"] = Row(writes[1].payload.d, RunMinute)
    /\ ~notes["sod_note"].present
    /\ notes["last_run_note"] = Row(StoredDecision, 0)

\* the dict _parse_gpt_response returns for a text it cannot decode
IsFallback(v) == Has(v, "raw_response") /\ Has(v, "error") /\ ~Has(v, "action")

FirstIntradayAfterSod ==
    /\ kind = "intraday"
    /\ pc \notin {"idle", "load"}
    /\ prior.kind = "sod"
    /\ prior.decided
    /\ prior.cleared

\* the context of the running invocation has no last-run section
NoLastRunSection ==
    \A i \in 1..Len(full_context) : full_context[i].name # "last_run"

\* C38 as stated: with one poller, the first intraday run after a SOD run
\* whose decision call and clear succeeded finds no last_run_note, has no
\* last-run section in its context, and reports last_run_context_used = false
\* and sod_context_used = true.
C38_FirstIntradayAfterSod ==
    FirstIntradayAfterSod =>
        /\ previous_run = PyNone
        /\ NoLastRunSection
        /\ (Left /\ Has(ret.value, "intraday_metadata")) =>
              /\ ~ret.value.d["intraday_metadata"].last_run_context_used
              /\ ret.value.d["intraday_metadata"].sod_context_used

\* C38 as amended: with one poller, the first intraday run after a SOD run
\* whose decision call, save of sod_note and clear succeeded finds no
\* last_run_note, has no last-run section in its context and reports
\* last_run_context_used = false; the store holds a sod_note, and
\* sod_context_used is true whenever the run's own read of sod_note
\* succeeded.
C38_FirstIntradayAfterSavedSod ==
    (FirstIntradayAfterSod /\ prior.saved) =>
        /\ previous_run = PyNone
        /\ NoLastRunSection
        /\ notes["sod_note"].present
        /\ sod_note \in {PyNone, get_analysis_note(notes, "sod_note", TRUE)}
        /\ (Left /\ Has(ret.value, "intraday_metadata")) =>
              /\ ~ret.value.d["intraday_metadata"].last_run_context_used
              /\ ret.value.d["intraday_metadata"].sod_context_used = (sod_note # PyNone)

\* C38 witness: the store held a last_run_note before the SOD run; the
\* intraday run that followed read the SOD run's ENTER decision as its SOD
\* note, found no last run, and was answered with both flags accordingly
C38_Witness ==
    /\ FirstIntradayAfterSod
    /\ prior.saved
    /\ pc = "done"
    /\ Has(sod_note, "action")
    /\ sod_note.d["action"] = "ENTER"
    /\ previous_run = PyNone
    /\ NoLastRunSection
    /\ Has(http.body, "intraday_metadata")
    /\ http.body.d["intraday_metadata"].sod_context_used
    /\ ~http.body.d["intraday_metadata"].last_run_context_used

\* the mapping get_market_data returns when every provider fetch failed
Degraded(mapping) ==
    /\ "risk_assets" \in DOMAIN mapping
    /\ mapping["risk_assets"] = "none"

\* C39: a refresh saves the mapping get_market_data returned, the degraded
\* one of failed providers included, and when the store takes the save the
\* row holds that mapping under the minute of the refresh; an intraday
\* invocation that reads a degraded note younger than 4 hours returns it as
\* read, calls no provider, writes nothing, and hands the degraded mapping to
\* the decision as data served from the cache.
C39_DegradedRefreshServed ==
    /\ \A i \in 1..Len(MarketWrites) :
          /\ MarketWrites[i].op = "save"
          /\ fut["market"] = Returned(MarketWrites[i].payload)
          /\ \E providersOk \in BOOLEAN :
                MarketWrites[i].payload =
                    get_market_data(MarketWrites[i].payload.d["timestamp"], providersOk)
          /\ (MarketWrites[i].ok /\ Degraded(MarketWrites[i].payload.d)) =>
                notes["market_data_note"] =
                    Row(MarketWrites[i].payload.d, MarketWrites[i].payload.d["timestamp"])
    /\ (/\ ReadableNote
        /\ Degraded(cached.d)
        /\ read_at - cached.d["_db_created_at"] < CacheMinutes) =>
          /\ fut["market"] = Returned(cached)
          /\ fetch_calls = 0
          /\ MarketWrites = <<>>
          /\ RowAsRead
          /\ Degraded(notes["market_data_note"].full_response)
          /\ "market" \in collected =>
                /\ market_context = cached
                /\ market_from_cache

\* C39 witness: the SOD invocation stored the mapping of failed providers,
\* and the intraday invocation 239 minutes later was answered from that
\* note, with no provider called and nothing written to market_data_note
C39_Witness ==
    /\ prior.kind = "sod"
    /\ kind = "intraday"
    /\ pc = "done"
    /\ ReadableNote
    /\ Degraded(cached.d)
    /\ cached.d["timestamp"] = cached.d["_db_created_at"]
    /\ read_at = cached.d["_db_created_at"] + CacheMinutes - 1
    /\ fetch_calls = 0
    /\ Degraded(market_context.d)
    /\ Has(http.body, "intraday_metadata")
    /\ http.body.d["intraday_metadata"].market_data_from_cache

\* the setups of a table whose completed_at is set
Completed(rows) == { r.setup_id : r \in { x \in rows : x.completed_at # NullTime } }

\* no call of get_active_setup on the table, by setup_id or by symbol alone,
\* returns the setup
NeverActive(rows, setup_id) ==
    \A symbol_ \in Symbols, asked \in SetupIds \cup {Null}, dbOk \in BOOLEAN :
        \A found \in get_active_setup(rows, symbol_, asked, dbOk) :
            found = PyNone \/ found.d.setup_id # setup_id

\* C40: a save_setup_state that writes phase STAND_DOWN leaves completed_at
\* of the setup set; a setup whose completed_at is set keeps it set through
\* every later call, whatever phase the call writes; and get_active_setup
\* returns no setup whose completed_at is set.
C40_CompletedStaysCompleted ==
    /\ [][(/\ db_ops' # db_ops
           /\ last_call'.fn = "save_setup_state"
           /\ last_call'.ok
           /\ last_call'.state.phase = "STAND_DOWN") =>
             last_call'.setup_id \in Completed(tbl_active_setups')]_vars
    /\ [][Completed(tbl_active_setups) \subseteq Completed(tbl_active_setups')]_vars
    /\ [](\A setup_id \in Completed(tbl_active_setups) :
             /\ NeverActive(tbl_active_setups, setup_id)
             /\ Cardinality({ r \in tbl_active_setups : r.setup_id = setup_id }) = 1)

\* C40 witness: a setup stood down by the first call was saved again with
\* phase ENTERED; completed_at is still the time of the first call,
\* get_active_setup returns None for its setup_id, and asked by symbol it
\* returns the other setup
C40_Witness ==
    /\ db_ops = 3
    /\ last_call.fn = "save_setup_state"
    /\ last_call.ok
    /\ last_call.setup_id = "s1"
    /\ \E r \in tbl_active_setups :
          /\ r.setup_id = "s1"
          /\ r.phase = "ENTERED"
          /\ r.updated_at = 3
          /\ r.completed_at = 1
    /\ get_active_setup(tbl_active_setups, Symbol, "s1", TRUE) = {PyNone}
    /\ \E found \in get_active_setup(tbl_active_setups, Symbol, Null, TRUE) :
          found # PyNone /\ found.d.setup_id = "s2"

====
